---- MODULE Spec2Model ----
(***************************************************************************)
(* Listening Booth dashboard: the report server (server.js), the ticket    *)
(* pipeline of FinalTicketManager (final-ticket-manager.js), the event     *)
(* pagination of VenueEventsManager (venue-manager.js) and the concurrent  *)
(* enrichment of SimplifiedVenueManager (simplified-venue-manager.js), of  *)
(* TicketSalesManager and EnhancedVenueManager (unnamed/part_002), the     *)
(* upcoming/past views of VenueEventsManager, the report that              *)
(* generateTicketReport builds over given upcoming events, the status each *)
(* manager gives one event, the refresh logic of the dashboard page, the   *)
(* scheduled jobs around 9:00 and the start of each script with or without *)
(* its credentials.                                                        *)
(*                                                                         *)
(* Node runs one callback at a time: the code between two awaits is one    *)
(* atomic step.  Every action below is one such step.                      *)
(***************************************************************************)
EXTENDS Integers, Sequences, FiniteSets, TLC

VARIABLES
    \* ---- server.js ----
    latestReport,   \* server.js:12  <<>> is null, <<r>> a Report reference
    lastUpdated,    \* server.js:13  <<>> is null, <<t>> a timestamp
    handlers,       \* the async invocations of updateCache / GET /api/events
    nextId,         \* next free handler id
    clock,          \* new Date(): logical time, one instant per completed run
    runsOf,         \* per handler: executions of generateTicketReport in progress
    finished,       \* history: outcome of every completed pipeline run, in completion order
    apiResp,        \* per handler: the HTTP response of GET /api/events
    cachedLog,      \* history: the responses of GET /api/events/cached
    healthResp,     \* the response of the GET /api/health answered in the last step, else <<>>
    \* ---- one pipeline run (final-ticket-manager.js, venue-manager.js) ----
    variant,        \* which code runs: "final" | "venue" | "simplified" | "sales" | "enhanced" | "off"
    source,         \* the upstream event service
    pc,             \* position of the run
    allEvents,      \* the events accumulated by the pagination loop
    offset,         \* the offset of the pagination loop
    limit,          \* the limit argument of the run
    totalAvailable, \* venue-manager.js:37
    io,             \* history: the HTTP requests and the delays awaited, in order
    upcomingEvents, \* the filtered, sorted, sliced list
    idx,            \* the enrichment loop's i (1-based)
    attempt,        \* getEventTickets' attempt
    eventsWithTickets, \* the enriched list; under Promise.all, its slots (<<>> while pending)
    sub,            \* simplified-venue-manager.js: the Promise.all callbacks, by event index
    data,           \* the value getUpcomingEventsWithTickets returns
    result,         \* the value the run returns
    \* ---- VenueEventsManager's views of the event list (venue-manager.js) ----
    vmEvents,       \* the events getAllEvents returns
    vmClock,        \* the latest reading of new Date()
    vmDashboard,    \* what getDashboard returned, <<>> before the call
    vmUpcoming,     \* what getUpcomingEvents returned, <<>> before the call
    vmPast,         \* what getPastEvents returned, <<>> before the call
    \* ---- reports over given upcoming events (final-ticket-manager.js, part_002) ----
    rpUpcoming,     \* the sorted upcoming events, each with the answer to its tickets request
    rpData,         \* what getUpcomingEventsWithTickets returned, <<>> before the call
    rpResult,       \* what generateTicketReport returned, <<>> before the call
    rpSales,        \* what getUpcomingEventsWithSales returned, <<>> before the call
    \* ---- the status of one event (final-ticket-manager.js, part_002, simplified-venue-manager.js) ----
    clInput,        \* the title, the counts and the days of the event
    clOutput,       \* the statuses the three managers gave it, <<>> before
    \* ---- the dashboard page (server.js:534-719) ----
    pgRefreshing,   \* server.js:535 isRefreshing
    pgDisabled,     \* button.disabled
    pgCalls,        \* the invocations of refreshData, each with its position
    pgInFlight,     \* requests to /api/events issued by refreshData and not yet answered
    pgLoad,         \* the position of loadDashboard
    \* ---- the server around 9:00 (server.js:726-866) ----
    dyNow,          \* the time of day, in minutes
    dyDue,          \* the cron tasks that fire at this instant
    dyJobs,         \* the invocations of updateCache and of the daily task
    dyCache,        \* latestReport: <<>> or the job whose report it is
    dyEmails,       \* history: the daily reports sent today
    dyConfigured,   \* EMAIL_USER and DAILY_REPORT_EMAILS are set
    dyStarts,       \* how often the server process was started today
    \* ---- the start of a script (constructors, debug scripts) ----
    stScript,       \* which script runs
    stEnv,          \* which of WIX_API_TOKEN, WIX_SITE_ID the environment defines
    stPc,           \* position of the script
    stRequests,     \* history: the HTTP requests issued, with the credentials they carry
    stError         \* the error the script reported, <<>> if none

serverVars == <<latestReport, lastUpdated, handlers, nextId, clock, runsOf,
                finished, apiResp, cachedLog, healthResp>>
runVars == <<variant, source, pc, limit, totalAvailable, allEvents, offset, io,
             upcomingEvents, idx, attempt, eventsWithTickets, sub, data, result>>
venueVars == <<vmEvents, vmClock, vmDashboard, vmUpcoming, vmPast>>
reportVars == <<rpUpcoming, rpData, rpResult, rpSales>>
\* what a step of the server, of a run, of the venue manager and of a report
\* leaves alone
classifyVars == <<clInput, clOutput>>
pageVars == <<pgRefreshing, pgDisabled, pgCalls, pgInFlight, pgLoad>>
dailyVars == <<dyNow, dyDue, dyJobs, dyCache, dyEmails, dyConfigured, dyStarts>>
startVars == <<stScript, stEnv, stPc, stRequests, stError>>
restOfServer == <<runVars, venueVars, reportVars, classifyVars, pageVars, dailyVars, startVars>>
restOfRun == <<serverVars, venueVars, reportVars, classifyVars, pageVars, dailyVars, startVars>>
restOfVenue == <<serverVars, runVars, reportVars, classifyVars, pageVars, dailyVars, startVars>>
restOfReport == <<serverVars, runVars, venueVars, classifyVars, pageVars, dailyVars, startVars>>
restOfClassify == <<serverVars, runVars, venueVars, reportVars, pageVars, dailyVars, startVars>>
restOfPage == <<serverVars, runVars, venueVars, reportVars, classifyVars, dailyVars, startVars>>
restOfDaily == <<serverVars, runVars, venueVars, reportVars, classifyVars, pageVars, startVars>>
restOfStart == <<serverVars, runVars, venueVars, reportVars, classifyVars, pageVars, dailyVars>>
vars == <<serverVars, runVars, venueVars, reportVars, classifyVars, pageVars, dailyVars,
          startVars>>

\* ------------------------------------------------------------------------
\* Bounds
\* ------------------------------------------------------------------------
MaxHandlers == 2        \* handler invocations per behaviour (the startup refresh included)
MaxReads == 2           \* GET /api/events/cached requests per behaviour
MaxUpstreamEvents == 1  \* upcoming events the upstream holds when a server run reads it
MaxFullPages == 2       \* full pages of events the upstream holds
MaxRemainder == 1       \* events beyond the last full page (besides batchSize - 1)
MaxUpcoming == 2        \* upcoming events among the upstream's events

Null == <<>>
Some(x) == <<x>>
Min(a, b) == IF a <= b THEN a ELSE b
Max(a, b) == IF a >= b THEN a ELSE b

\* no call of VenueEventsManager's views is modelled
VenueOff ==
    /\ vmEvents = <<>>
    /\ vmClock = 0
    /\ vmDashboard = Null
    /\ vmUpcoming = Null
    /\ vmPast = Null

\* no report over given events is modelled
ReportOff ==
    /\ rpUpcoming = <<>>
    /\ rpData = Null
    /\ rpResult = Null
    /\ rpSales = Null

\* no event is classified by itself
ClassifyOff ==
    /\ clInput = Null
    /\ clOutput = Null

\* no dashboard page is open
PageOff ==
    /\ pgRefreshing = FALSE
    /\ pgDisabled = FALSE
    /\ pgCalls = <<>>
    /\ pgInFlight = 0
    /\ pgLoad = "off"

\* the time of day is not modelled
DailyOff ==
    /\ dyNow = 0
    /\ dyDue = {}
    /\ dyJobs = <<>>
    /\ dyCache = Null
    /\ dyEmails = <<>>
    /\ dyConfigured = FALSE
    /\ dyStarts = 0

\* no script is starting
StartOff ==
    /\ stScript = "off"
    /\ stEnv = [token |-> FALSE, siteId |-> FALSE]
    /\ stPc = "off"
    /\ stRequests = <<>>
    /\ stError = Null

\* the parts besides the server, a run, the venue views and the reports
OthersOff == ClassifyOff /\ PageOff /\ DailyOff /\ StartOff

\* ------------------------------------------------------------------------
\* server.js
\* ------------------------------------------------------------------------
DefaultLimit == 20

\* req.query.limit: absent/unparsable (<<>>) or an integer
QueryLimits == {<<>>, <<0>>, <<1>>, <<-1>>}

\* parseInt(req.query.limit) || 20 : NaN and 0 are falsy
ParseLimit(q) == IF q = <<>> \/ q[1] = 0 THEN DefaultLimit ELSE q[1]

\* Array.prototype.slice(0, limit) on a list of n elements: the length kept
SliceLen(n, lim) == IF lim >= 0 THEN Min(n, lim) ELSE Max(n + lim, 0)

\* The Report object built by generateTicketReport; ref is the object's identity.
NewReport(h, lim, upstream, now) ==
    [ref |-> h,
     summary |-> [totalUpcomingEvents |-> SliceLen(upstream, lim)],
     events |-> SliceLen(upstream, lim),
     generatedAt |-> now]

\* The two results generateTicketReport can return
ReportOutcomes(h, lim, now) ==
    {[success |-> TRUE, report |-> Some(NewReport(h, lim, u, now)), error |-> Null]
        : u \in 0..MaxUpstreamEvents}
    \cup {[success |-> FALSE, report |-> Null, error |-> Some("Request failed")]}

IdleHandler == [kind |-> "none", pc |-> "idle", limit |-> 0]
NoResp == [status |-> 0, body |-> Null, error |-> Null]

\* server.js:12-13 and :866: module load ends with the first updateCache()
\* suspended at its await of generateTicketReport(20)
ServerInit ==
    /\ latestReport = Null
    /\ lastUpdated = Null
    /\ handlers = [h \in 1..MaxHandlers |->
                     IF h = 1 THEN [kind |-> "updateCache", pc |-> "awaitReport",
                                    limit |-> DefaultLimit]
                     ELSE IdleHandler]
    /\ nextId = 2
    /\ clock = 1
    /\ runsOf = [h \in 1..MaxHandlers |-> IF h = 1 THEN 1 ELSE 0]
    /\ finished = <<>>
    /\ apiResp = [h \in 1..MaxHandlers |-> NoResp]
    /\ cachedLog = <<>>
    /\ healthResp = Null

\* the call ticketManager.generateTicketReport(limit): one more run in progress
BeginRunTwice(h) == runsOf' = [runsOf EXCEPT ![h] = @ + 2]
BeginRun(h) == runsOf' = [runsOf EXCEPT ![h] = @ + 1]

\* the awaited promise of generateTicketReport settles
EndRun(h) == runsOf' = [runsOf EXCEPT ![h] = @ - 1]

\* latestReport = reportData.report; lastUpdated = new Date().toISOString();
StoreReportOnly(report) ==
    /\ latestReport' = report
    /\ UNCHANGED lastUpdated
StoreIfStartedLater(report) ==
    IF latestReport = Null \/ latestReport[1].ref < report[1].ref
    THEN /\ latestReport' = report
         /\ lastUpdated' = Some(clock)
    ELSE UNCHANGED <<latestReport, lastUpdated>>
StoreReport(report) ==
    /\ latestReport' = report
    /\ lastUpdated' = Some(clock)

\* the else branch of `if (reportData.success)`: the cache is not touched
FailedRunStores(out) == StoreReport(out.report)
FailedRun(out) == UNCHANGED <<latestReport, lastUpdated>>

\* cron.schedule('0 * * * *', updateCache): updateCache up to its first await
CronHourly ==
    /\ nextId <= MaxHandlers
    /\ handlers' = [handlers EXCEPT ![nextId] =
                      [kind |-> "updateCache", pc |-> "awaitReport", limit |-> DefaultLimit]]
    /\ BeginRun(nextId)
    /\ nextId' = nextId + 1
    /\ UNCHANGED <<latestReport, lastUpdated, clock, finished, apiResp, cachedLog>>
    /\ healthResp' = Null
    /\ UNCHANGED restOfServer

\* app.get('/api/events'): the handler up to its first await
ApiEventsRequest(q) ==
    /\ nextId <= MaxHandlers
    /\ handlers' = [handlers EXCEPT ![nextId] =
                      [kind |-> "apiEvents", pc |-> "awaitReport", limit |-> ParseLimit(q)]]
    /\ BeginRun(nextId)
    /\ nextId' = nextId + 1
    /\ UNCHANGED <<latestReport, lastUpdated, clock, finished, apiResp, cachedLog>>
    /\ healthResp' = Null
    /\ UNCHANGED restOfServer

\* updateCache after generateTicketReport settled (server.js:731-743)
UpdateCacheResume(h, out, nineAM) ==
    /\ handlers[h].kind = "updateCache"
    /\ handlers[h].pc = "awaitReport"
    /\ EndRun(h)
    /\ finished' = Append(finished, [run |-> h, success |-> out.success,
                                     report |-> out.report, at |-> clock])
    /\ IF out.success
       THEN /\ StoreReport(out.report)
            /\ handlers' = [handlers EXCEPT ![h].pc =
                              IF nineAM THEN "awaitEmail" ELSE "done"]
       ELSE /\ FailedRun(out)
            /\ handlers' = [handlers EXCEPT ![h].pc = "done"]
    /\ clock' = clock + 1
    /\ UNCHANGED <<nextId, apiResp, cachedLog>>
    /\ healthResp' = Null
    /\ UNCHANGED restOfServer

\* updateCache after sendDailyReport settled, resolved or rejected (server.js:739-746)
UpdateCacheEmailDone(h) ==
    /\ handlers[h].kind = "updateCache"
    /\ handlers[h].pc = "awaitEmail"
    /\ handlers' = [handlers EXCEPT ![h].pc = "done"]
    /\ UNCHANGED <<latestReport, lastUpdated, nextId, clock, runsOf, finished,
                   apiResp, cachedLog>>
    /\ healthResp' = Null
    /\ UNCHANGED restOfServer

\* GET /api/events after generateTicketReport settled (server.js:39-45)
ApiEventsResume(h, out) ==
    /\ handlers[h].kind = "apiEvents"
    /\ handlers[h].pc = "awaitReport"
    /\ EndRun(h)
    /\ finished' = Append(finished, [run |-> h, success |-> out.success,
                                     report |-> out.report, at |-> clock])
    /\ IF out.success
       THEN /\ StoreReport(out.report)
            /\ apiResp' = [apiResp EXCEPT ![h] =
                             [status |-> 200, body |-> out.report, error |-> Null]]
       ELSE /\ FailedRun(out)
            /\ apiResp' = [apiResp EXCEPT ![h] =
                             [status |-> 500, body |-> Null, error |-> out.error]]
    /\ handlers' = [handlers EXCEPT ![h].pc = "done"]
    /\ clock' = clock + 1
    /\ UNCHANGED <<nextId, cachedLog>>
    /\ healthResp' = Null
    /\ UNCHANGED restOfServer

\* GET /api/events/cached (server.js:52-61); `after` is the number of runs
\* completed before the response was built
CachedResponseFalsyWhenEmpty ==
    IF latestReport # Null /\ latestReport[1].events # 0
    THEN [status |-> 200,
          body |-> Some([ref |-> latestReport[1].ref,
                         summary |-> latestReport[1].summary,
                         events |-> latestReport[1].events,
                         generatedAt |-> latestReport[1].generatedAt,
                         lastUpdated |-> lastUpdated]),
          error |-> Null,
          after |-> Len(finished)]
    ELSE [status |-> 404, body |-> Null, error |-> Some("No cached data available"),
          after |-> Len(finished)]
CachedResponse ==
    IF latestReport # Null
    THEN [status |-> 200,
          body |-> Some([ref |-> latestReport[1].ref,
                         summary |-> latestReport[1].summary,
                         events |-> latestReport[1].events,
                         generatedAt |-> latestReport[1].generatedAt,
                         lastUpdated |-> lastUpdated]),
          error |-> Null,
          after |-> Len(finished)]
    ELSE [status |-> 404, body |-> Null, error |-> Some("No cached data available"),
          after |-> Len(finished)]

CachedEventsRequest ==
    /\ Len(cachedLog) < MaxReads
    /\ cachedLog' = Append(cachedLog, CachedResponse)
    /\ UNCHANGED <<latestReport, lastUpdated, handlers, nextId, clock, runsOf,
                   finished, apiResp>>
    /\ healthResp' = Null
    /\ UNCHANGED restOfServer

\* GET /api/health (server.js:64-74): the body it sends; uptime and the two
\* ticket figures, which the abstract Report does not carry, are left out
HealthResponseFalsyWhenEmpty ==
    [status |-> "healthy",
     lastUpdate |-> lastUpdated,
     hasData |-> latestReport # Null /\ latestReport[1].events # 0,
     totalEvents |-> IF latestReport = Null THEN 0
                     ELSE latestReport[1].summary.totalUpcomingEvents]
HealthResponse ==
    [status |-> "healthy",
     lastUpdate |-> lastUpdated,
     hasData |-> latestReport # Null,
     totalEvents |-> IF latestReport = Null THEN 0
                     ELSE latestReport[1].summary.totalUpcomingEvents]

\* the handler is synchronous: healthResp is the response of the request
\* answered in the last step
HealthRequest ==
    /\ healthResp' = Some(HealthResponse)
    /\ UNCHANGED <<latestReport, lastUpdated, handlers, nextId, clock, runsOf,
                   finished, apiResp, cachedLog>>
    /\ UNCHANGED restOfServer

\* no pipeline run is modelled in detail
RunOff ==
    /\ variant = "off"
    /\ source = [n |-> 0, total |-> Null, upcoming |-> 0]
    /\ pc = "off"
    /\ limit = 0
    /\ totalAvailable = Null
    /\ allEvents = <<>>
    /\ offset = 0
    /\ io = <<>>
    /\ upcomingEvents = <<>>
    /\ idx = 0
    /\ attempt = 0
    /\ eventsWithTickets = <<>>
    /\ sub = <<>>
    /\ data = Null
    /\ result = Null

Init == ServerInit /\ RunOff /\ VenueOff /\ ReportOff /\ OthersOff

Next ==
    \/ CronHourly
    \/ \E q \in QueryLimits : ApiEventsRequest(q)
    \/ \E h \in 1..MaxHandlers :
         \E out \in ReportOutcomes(h, handlers[h].limit, clock), nineAM \in BOOLEAN :
            UpdateCacheResume(h, out, nineAM)
    \/ \E h \in 1..MaxHandlers : UpdateCacheEmailDone(h)
    \/ \E h \in 1..MaxHandlers :
         \E out \in ReportOutcomes(h, handlers[h].limit, clock) :
            ApiEventsResume(h, out)
    \/ CachedEventsRequest
    \/ HealthRequest

Spec == Init /\ [][Next]_vars

\* ------------------------------------------------------------------------
\* One pipeline run: FinalTicketManager.generateTicketReport (variant "final"),
\* VenueEventsManager.getAllEvents (variant "venue"),
\* SimplifiedVenueManager.getUpcomingEvents (variant "simplified"),
\* TicketSalesManager.getUpcomingEventsWithSales (variant "sales") or
\* EnhancedVenueManager.getUpcomingEventsWithRSVPs (variant "enhanced")
\* ------------------------------------------------------------------------
batchSize == 100
retries == 3
PageDelay == 500
EventDelay == 1000
RetryDelay == 2000

\* HTTP outcomes: 200, 429 (rate limited), 500 (any other failure)
Statuses == {200, 429, 500}

\* the upstream holds events 1..n in source order, declares `total` (or omits
\* the field) and has `upcoming` events in the future
SourceSizes ==
    {k * batchSize + r : k \in 0..MaxFullPages,
                         r \in (0..MaxRemainder) \cup {batchSize - 1}}
Sources ==
    UNION {{[n |-> n, total |-> t, upcoming |-> u]
               : t \in {Null, Some(n), Some(n + 1)}, u \in 0..Min(n, MaxUpcoming)}
           : n \in SourceSizes}

\* GET /events/v1/events?limit=100&offset=off : the events off+1 .. off+100
Page(off) == [i \in 1..Max(0, Min(batchSize, source.n - off)) |-> off + i]

\* scheduling.config.startDate in days from now: the last `upcoming` events
\* of the source are in the future, the latest event of the source first
StartDay(id) ==
    IF id > source.n - source.upcoming THEN source.n - id + 1 ELSE 0 - id

\* the bodies a successful tickets request can carry: tickets is the list of
\* the records' `free` flags; either field may be missing
TicketBodies ==
    {[tickets |-> Null, total |-> Null],
     [tickets |-> Some(<<FALSE>>), total |-> Some(1)],
     [tickets |-> Some(<<TRUE, FALSE>>), total |-> Some(2)],
     [tickets |-> Some(<<TRUE>>), total |-> Null]}

\* x || d
OrElse(x, d) == IF x = Null THEN d ELSE x[1]

\* Array.prototype.sort with (a, b) => start(a) - start(b): stable, ascending
RECURSIVE InsertByStart(_, _)
InsertByStart(e, s) ==
    IF s = <<>> THEN <<e>>
    ELSE IF StartDay(e) < StartDay(Head(s)) THEN <<e>> \o s
    ELSE <<Head(s)>> \o InsertByStart(e, Tail(s))
RECURSIVE SortByStart(_)
SortByStart(s) ==
    IF s = <<>> THEN <<>>
    ELSE InsertByStart(s[Len(s)], SortByStart(SubSeq(s, 1, Len(s) - 1)))

IsFuture(e) == StartDay(e) > 0

\* final-ticket-manager.js:695-703
UpcomingOf(all, lim) ==
    LET sorted == SortByStart(SelectSeq(all, IsFuture))
    IN SubSeq(sorted, 1, SliceLen(Len(sorted), lim))

CountFreeOrPaid(tickets) == Len(tickets)
CountFree(tickets) == Len(SelectSeq(tickets, LAMBDA f : f))
CountPaid(tickets) == Len(SelectSeq(tickets, LAMBDA f : ~f))

\* ---- titles (final-ticket-manager.js:773-789) ----
\* a title is the sequence of its characters
UpperCase == <<"A", "B", "C", "D", "E", "F", "G", "H", "I", "J", "K", "L", "M", "N", "O", "P", "Q", "R", "S", "T", "U", "V", "W", "X", "Y", "Z">>
LowerCase == <<"a", "b", "c", "d", "e", "f", "g", "h", "i", "j", "k", "l", "m", "n", "o", "p", "q", "r", "s", "t", "u", "v", "w", "x", "y", "z">>

\* String.prototype.toLowerCase
LowerTable ==
    [c \in {UpperCase[k] : k \in 1..Len(UpperCase)} |->
        LowerCase[CHOOSE k \in 1..Len(UpperCase) : UpperCase[k] = c]]
LowerOf(c) == IF c \in DOMAIN LowerTable THEN LowerTable[c] ELSE c
ToLowerCase(title) == [k \in 1..Len(title) |-> LowerOf(title[k])]

\* String.prototype.includes
Includes(text, part) ==
    \E k \in 0..(Len(text) - Len(part)) : SubSeq(text, k + 1, k + Len(part)) = part

KeyOpenMic == <<"o", "p", "e", "n", " ", "m", "i", "c">>
KeyJam == <<"j", "a", "m">>
KeyLessons == <<"l", "e", "s", "s", "o", "n", "s">>
KeySongwriting == <<"s", "o", "n", "g", "w", "r", "i", "t", "i", "n", "g">>
KeyFundraiser == <<"f", "u", "n", "d", "r", "a", "i", "s", "e", "r">>

\* final-ticket-manager.js:773-781
CategorizeEventByLastMatch(title) ==
    LET titleLower == ToLowerCase(title)
    IN IF Includes(titleLower, KeyFundraiser) THEN "Fundraiser"
       ELSE IF Includes(titleLower, KeyLessons) \/ Includes(titleLower, KeySongwriting)
            THEN "Workshop"
       ELSE IF Includes(titleLower, KeyJam) THEN "Jam Session"
       ELSE IF Includes(titleLower, KeyOpenMic) THEN "Open Mic"
       ELSE "Concert"
CategorizeEvent(title) ==
    LET titleLower == ToLowerCase(title)
    IN IF Includes(titleLower, KeyOpenMic) THEN "Open Mic"
       ELSE IF Includes(titleLower, KeyJam) THEN "Jam Session"
       ELSE IF Includes(titleLower, KeyLessons) \/ Includes(titleLower, KeySongwriting)
            THEN "Workshop"
       ELSE IF Includes(titleLower, KeyFundraiser) THEN "Fundraiser"
       ELSE "Concert"

\* final-ticket-manager.js:784-789
IsRSVPEvent(title) ==
    LET titleLower == ToLowerCase(title)
    IN \/ Includes(titleLower, KeyOpenMic)
       \/ Includes(titleLower, KeyJam)
       \/ Includes(titleLower, KeyLessons)

\* the titles the upstream gives its events: every other event is the open mic
TitleOpenMic == <<"O", "p", "e", "n", " ", "M", "i", "c">>
TitleJazzNight == <<"J", "a", "z", "z", " ", "N", "i", "g", "h", "t">>
TitleFundraiserGala == <<"F", "u", "n", "d", "r", "a", "i", "s", "e", "r", " ", "G", "a", "l", "a">>
TitleOf(id) == IF id % 2 = 0 THEN TitleOpenMic ELSE TitleJazzNight

\* final-ticket-manager.js:722-730
SalesStatusBelowSeven(ticketsSold, daysFromNow) ==
    IF daysFromNow < 7 /\ ticketsSold = 0 THEN "urgent"
    ELSE IF ticketsSold >= 25 THEN "high"
    ELSE IF ticketsSold >= 10 THEN "medium"
    ELSE "low"
SalesStatus(ticketsSold, daysFromNow) ==
    IF daysFromNow <= 7 /\ ticketsSold = 0 THEN "urgent"
    ELSE IF ticketsSold >= 25 THEN "high"
    ELSE IF ticketsSold >= 10 THEN "medium"
    ELSE "low"

\* the entry pushed for an upcoming event (its id, title and days from now)
\* with ticketsResult r (final-ticket-manager.js:716-753)
\* event.location?.name || 'The Listening Booth': an absent location and an
\* empty name give the default (final-ticket-manager.js:749)
DefaultVenue == "The Listening Booth"
VenueName(location) ==
    IF location = Null \/ location[1] = "" THEN DefaultVenue ELSE location[1]

EnrichEvent(event, r) ==
    [id |-> event.id,
     title |-> event.title,
     ticketsSold |-> r.total,
     paidTickets |-> CountPaid(r.tickets),
     freeTickets |-> CountFree(r.tickets),
     daysFromNow |-> event.daysFromNow,
     salesStatus |-> SalesStatus(r.total, event.daysFromNow),
     eventType |-> CategorizeEvent(event.title),
     venue |-> VenueName(event.location),
     isPaid |-> CountPaid(r.tickets) > 0,
     isFree |-> CountFree(r.tickets) = r.total /\ r.total > 0,
     isRSVPOnly |-> r.total = 0 /\ IsRSVPEvent(event.title)]

\* the same for event id of the upstream of a run
Enrich(id, r) ==
    EnrichEvent([id |-> id, title |-> TitleOf(id), daysFromNow |-> StartDay(id),
                 location |-> Null], r)

\* getEventTickets: the results it returns
TicketsOk(body) ==
    [success |-> TRUE, tickets |-> OrElse(body.tickets, <<>>), total |-> OrElse(body.total, 0)]
FailedTickets == [success |-> FALSE, tickets |-> <<>>, total |-> 0]

\* error.response?.status === 429 && attempt < retries
ShouldRetryAlways(status, att) == att <= retries
ShouldRetry(status, att) == status = 429 /\ att < retries

RECURSIVE SumTickets(_)
SumTickets(es) == IF es = <<>> THEN 0 ELSE Head(es).ticketsSold + SumTickets(Tail(es))

\* what getUpcomingEventsWithTickets and getAllEvents return
SuccessData(events) ==
    [success |-> TRUE, error |-> Null, events |-> Some(events), total |-> Some(Len(events))]
FailureData == [success |-> FALSE, error |-> Some("Request failed"), events |-> Null, total |-> Null]

\* ---- generateTicketReport (final-ticket-manager.js:799-877) ----
RECURSIVE SumSeq(_)
SumSeq(s) == IF s = <<>> THEN 0 ELSE Head(s) + SumSeq(Tail(s))
CountWhere(es, Test(_)) == Len(SelectSeq(es, Test))

\* JavaScript numbers with one decimal, in tenths; 0/0 is NaN, x/0 Infinity
Tenths(k) == [kind |-> "number", tenths |-> k]
NotANumber == [kind |-> "NaN", tenths |-> 0]
PlusInfinity == [kind |-> "Infinity", tenths |-> 0]

\* Math.round(total / count * 10) / 10 on non-negative integers: halves go up
RoundedAverage(total, count) ==
    IF count = 0 THEN (IF total = 0 THEN NotANumber ELSE PlusInfinity)
    ELSE Tenths((20 * total + count) \div (2 * count))

\* final-ticket-manager.js:804-806
IsTicketedAlways(e) == TRUE
IsTicketed(e) == e.isPaid \/ (e.ticketsSold > 0 /\ ~e.isRSVPOnly)

\* final-ticket-manager.js:807-808
AverageUnguarded(total, count) == RoundedAverage(total, count)
AverageTicketsPerEvent(total, count) ==
    IF count > 0 THEN RoundedAverage(total, count) ELSE Tenths(0)

\* .sort((a, b) => b.ticketsSold - a.ticketsSold): stable, most tickets first
RECURSIVE InsertBySoldBeforeEqual(_, _)
InsertBySoldBeforeEqual(e, s) ==
    IF s = <<>> THEN <<e>>
    ELSE IF Head(s).ticketsSold - e.ticketsSold <= 0 THEN <<e>> \o s
    ELSE <<Head(s)>> \o InsertBySoldBeforeEqual(e, Tail(s))
RECURSIVE InsertBySold(_, _)
InsertBySold(e, s) ==
    IF s = <<>> THEN <<e>>
    ELSE IF Head(s).ticketsSold - e.ticketsSold < 0 THEN <<e>> \o s
    ELSE <<Head(s)>> \o InsertBySold(e, Tail(s))
RECURSIVE SortBySold(_)
SortBySold(s) ==
    IF s = <<>> THEN <<>>
    ELSE InsertBySold(s[Len(s)], SortBySold(SubSeq(s, 1, Len(s) - 1)))

\* final-ticket-manager.js:846-854
TopCount == 5
TopSellingEvents(es) ==
    LET sorted == SortBySold(SelectSeq(es, LAMBDA e : e.ticketsSold > 0))
        top == SubSeq(sorted, 1, Min(TopCount, Len(sorted)))
    IN [k \in 1..Len(top) |->
          [title |-> top[k].title,
           tickets |-> top[k].ticketsSold,
           type |-> IF top[k].isPaid THEN "paid"
                    ELSE IF top[k].isFree THEN "free" ELSE "unknown"]]

\* final-ticket-manager.js:811-814: a counting map, keyed by the types present
EventTypesWithoutCount(es) ==
    [t \in {es[k].eventType : k \in 1..Len(es)} |-> 1]
EventTypes(es) ==
    [t \in {es[k].eventType : k \in 1..Len(es)} |->
        CountWhere(es, LAMBDA e : e.eventType = t)]

\* final-ticket-manager.js:817-822
SalesBreakdown(es) ==
    [high |-> CountWhere(es, LAMBDA e : e.salesStatus = "high"),
     medium |-> CountWhere(es, LAMBDA e : e.salesStatus = "medium"),
     low |-> CountWhere(es, LAMBDA e : e.salesStatus = "low"),
     urgent |-> CountWhere(es, LAMBDA e : e.salesStatus = "urgent")]

\* final-ticket-manager.js:824-828: a counting map, keyed by the venues present
VenueBreakdown(es) ==
    [v \in {es[k].venue : k \in 1..Len(es)} |->
        CountWhere(es, LAMBDA e : e.venue = v)]

\* final-ticket-manager.js:855-856
UrgentEvents(es) == SelectSeq(es, LAMBDA e : e.salesStatus = "urgent")
ThisWeekEventsBelowSeven(es) == SelectSeq(es, LAMBDA e : e.daysFromNow < 7)
ThisWeekEvents(es) == SelectSeq(es, LAMBDA e : e.daysFromNow <= 7)

\* final-ticket-manager.js:858-873
ReportEvent(e) ==
    [title |-> e.title, daysFromNow |-> e.daysFromNow, ticketsSold |-> e.ticketsSold,
     paidTickets |-> e.paidTickets, freeTickets |-> e.freeTickets,
     salesStatus |-> e.salesStatus, eventType |-> e.eventType, venue |-> e.venue,
     isPaid |-> e.isPaid, isFree |-> e.isFree, isRSVPOnly |-> e.isRSVPOnly,
     eventId |-> e.id]

\* final-ticket-manager.js:835-857
Summary(es) ==
    LET totalTicketsSold == SumTickets(es)
        ticketedEvents == SelectSeq(es, IsTicketed)
    IN [totalUpcomingEvents |-> Len(es),
        totalTicketsSold |-> totalTicketsSold,
        totalPaidTickets |-> SumSeq([k \in 1..Len(es) |-> es[k].paidTickets]),
        totalFreeTickets |-> SumSeq([k \in 1..Len(es) |-> es[k].freeTickets]),
        averageTicketsPerEvent |->
            AverageTicketsPerEvent(totalTicketsSold, Len(ticketedEvents)),
        ticketedEventsCount |-> Len(ticketedEvents),
        freeEventsCount |-> CountWhere(es, LAMBDA e : e.isFree \/ e.isRSVPOnly),
        eventTypes |-> EventTypes(es),
        salesBreakdown |-> SalesBreakdown(es),
        venueBreakdown |-> VenueBreakdown(es),
        topSellingEvents |-> TopSellingEvents(es),
        urgentEvents |-> UrgentEvents(es),
        thisWeekEvents |-> ThisWeekEvents(es)]

\* generateTicketReport on the result d of getUpcomingEventsWithTickets
GenerateTicketReport(d) ==
    IF ~d.success
    THEN [success |-> FALSE, error |-> d.error, report |-> Null]
    ELSE [success |-> TRUE, error |-> Null,
          report |-> Some([summary |-> Summary(d.events[1]),
                           events |-> [k \in 1..Len(d.events[1]) |->
                                          ReportEvent(d.events[1][k])]])]

\* the entries of io: a request with the response it got, or a delay awaited
HttpRequest(kind, arg, att, status, body) ==
    [kind |-> kind, arg |-> arg, attempt |-> att, status |-> status,
     body |-> IF status = 200 THEN Some(body) ELSE Null]
Delay(ms) == [kind |-> "delay", arg |-> ms, attempt |-> 0, status |-> 0, body |-> Null]

ServerOff ==
    /\ latestReport = Null
    /\ lastUpdated = Null
    /\ handlers = [h \in 1..MaxHandlers |-> IdleHandler]
    /\ nextId = 1
    /\ clock = 1
    /\ runsOf = [h \in 1..MaxHandlers |-> 0]
    /\ finished = <<>>
    /\ apiResp = [h \in 1..MaxHandlers |-> NoResp]
    /\ cachedLog = <<>>
    /\ healthResp = Null

\* the run enters its first await: the request for the first page is out
RunInit ==
    /\ variant \in {"final", "venue", "simplified", "sales", "enhanced"}
    /\ source \in Sources
    \* only VenueEventsManager reads the declared total
    /\ variant # "venue" => source.total = Some(source.n)
    /\ pc = IF variant = "venue" THEN "first" ELSE "page"
    /\ limit \in IF variant = "venue" THEN {batchSize}
                ELSE IF variant = "sales" THEN {2, 1}
                ELSE {DefaultLimit, 1}
    /\ totalAvailable = Some(0)
    /\ allEvents = <<>>
    /\ offset = 0
    /\ io = <<>>
    /\ upcomingEvents = <<>>
    /\ idx = 0
    /\ attempt = 0
    /\ eventsWithTickets = <<>>
    /\ sub = <<>>
    /\ data = Null
    /\ result = Null

\* getUpcomingEventsWithTickets returns d; generateTicketReport returns in
\* the same turn
FinalReturn(d) ==
    /\ pc' = "done"
    /\ data' = Some(d)
    /\ result' = Some(GenerateTicketReport(d))

\* the catch of getUpcomingEventsWithTickets (final-ticket-manager.js:767-770)
RunFailed(log) ==
    /\ FinalReturn(FailureData)
    /\ io' = log
    /\ UNCHANGED <<allEvents, offset, upcomingEvents, idx, attempt, eventsWithTickets>>

\* after the pagination loop: filter, sort, slice, and enter the enrichment
\* loop (final-ticket-manager.js:693-715)
AfterPages(all, off, log) ==
    /\ allEvents' = all
    /\ offset' = off
    /\ upcomingEvents' = UpcomingOf(all, limit)
    /\ UNCHANGED eventsWithTickets
    /\ IF Len(UpcomingOf(all, limit)) = 0
       THEN /\ FinalReturn(SuccessData(<<>>))
            /\ io' = log
            /\ UNCHANGED <<idx, attempt>>
       ELSE /\ pc' = "tickets"
            /\ idx' = 1
            /\ attempt' = 1
            /\ io' = log
            /\ UNCHANGED <<data, result>>

\* a request of the pagination loop threw
PageFailedEndsLoop(log) == AfterPages(allEvents, offset, log)
PageFailed(log) == RunFailed(log)

\* one iteration of the pagination loop (final-ticket-manager.js:678-691)
FinalFetchPage(status) ==
    /\ variant = "final"
    /\ pc = "page"
    /\ LET log == Append(io, HttpRequest("events", offset, 1, status, Len(Page(offset))))
           events == Page(offset)
       IN IF status # 200 THEN PageFailed(log)
          ELSE IF Len(events) = 0 THEN AfterPages(allEvents, offset, log)
          ELSE IF Len(events) < batchSize
               THEN AfterPages(allEvents \o events, offset + batchSize, log)
          ELSE /\ allEvents' = allEvents \o events
               /\ offset' = offset + batchSize
               /\ io' = Append(log, Delay(PageDelay))
               /\ UNCHANGED <<pc, upcomingEvents, idx, attempt, eventsWithTickets,
                              data, result>>
    /\ UNCHANGED <<variant, source, limit, totalAvailable, sub>>
    /\ UNCHANGED restOfRun

\* getEventTickets returned r for upcomingEvents[idx]: the rest of the loop
\* body (final-ticket-manager.js:716-765)
TicketsSettledDelaysAfterLast(r, log) ==
    /\ eventsWithTickets' = Append(eventsWithTickets, Enrich(upcomingEvents[idx], r))
    /\ io' = Append(log, Delay(EventDelay))
    /\ IF idx < Len(upcomingEvents)
       THEN /\ idx' = idx + 1
            /\ attempt' = 1
            /\ UNCHANGED <<pc, data, result>>
       ELSE /\ FinalReturn(SuccessData(Append(eventsWithTickets,
                                              Enrich(upcomingEvents[idx], r))))
            /\ UNCHANGED <<idx, attempt>>
    /\ UNCHANGED <<allEvents, offset, upcomingEvents>>
TicketsSettled(r, log) ==
    /\ eventsWithTickets' = Append(eventsWithTickets, Enrich(upcomingEvents[idx], r))
    /\ IF idx < Len(upcomingEvents)
       THEN /\ io' = Append(log, Delay(EventDelay))
            /\ idx' = idx + 1
            /\ attempt' = 1
            /\ UNCHANGED <<pc, data, result>>
       ELSE /\ io' = log
            /\ FinalReturn(SuccessData(Append(eventsWithTickets,
                                              Enrich(upcomingEvents[idx], r))))
            /\ UNCHANGED <<idx, attempt>>
    /\ UNCHANGED <<allEvents, offset, upcomingEvents>>

\* getEventTickets gives up (final-ticket-manager.js:664)
TicketsFailedAborts(log) == RunFailed(log)
TicketsFailed(log) == TicketsSettled(FailedTickets, log)

\* one attempt of getEventTickets (final-ticket-manager.js:645-666)
FinalFetchTickets(status, body) ==
    /\ variant = "final"
    /\ pc = "tickets"
    /\ LET log == Append(io, HttpRequest("tickets", upcomingEvents[idx], attempt, status, body))
       IN IF status = 200 THEN TicketsSettled(TicketsOk(body), log)
          ELSE IF ShouldRetry(status, attempt)
               THEN /\ io' = Append(log, Delay(attempt * RetryDelay))
                    /\ attempt' = attempt + 1
                    /\ UNCHANGED <<pc, allEvents, offset, upcomingEvents, idx,
                                   eventsWithTickets, data, result>>
          ELSE TicketsFailed(log)
    /\ UNCHANGED <<variant, source, limit, totalAvailable, sub>>
    /\ UNCHANGED restOfRun

\* allEvents.length < totalAvailable, totalAvailable possibly undefined
BelowTotal(len, total) == total # Null /\ len < total[1]

\* getAllEvents returns (venue-manager.js:67-75)
VenueReturn(d) ==
    /\ pc' = "done"
    /\ result' = Some(d)

\* if (newEvents.length === 0) break;
NeverStop(newEvents) == FALSE
StopOnEmpty(newEvents) == Len(newEvents) = 0

\* getAllEvents: the first request (venue-manager.js:40-50)
VenueFirstPage(status) ==
    /\ variant = "venue"
    /\ pc = "first"
    /\ io' = Append(io, HttpRequest("events", 0, 1, status, Len(Page(0))))
    /\ IF status # 200
       THEN /\ VenueReturn(FailureData)
            /\ UNCHANGED <<totalAvailable, allEvents, offset>>
       ELSE /\ totalAvailable' = source.total
            /\ allEvents' = Page(0)
            /\ IF BelowTotal(Len(Page(0)), source.total)
               THEN /\ offset' = offset + limit
                    /\ pc' = "loop"
                    /\ UNCHANGED result
               ELSE /\ VenueReturn(SuccessData(Page(0)))
                    /\ UNCHANGED offset
    /\ UNCHANGED <<variant, source, limit, upcomingEvents, idx, attempt,
                   eventsWithTickets, sub, data>>
    /\ UNCHANGED restOfRun

\* getAllEvents: one iteration of the while loop (venue-manager.js:50-63)
VenueNextPage(status) ==
    /\ variant = "venue"
    /\ pc = "loop"
    /\ io' = Append(io, HttpRequest("events", offset, 1, status, Len(Page(offset))))
    /\ IF status # 200
       THEN /\ VenueReturn(FailureData)
            /\ UNCHANGED <<allEvents, offset>>
       ELSE /\ allEvents' = allEvents \o Page(offset)
            /\ IF StopOnEmpty(Page(offset))
                  \/ ~BelowTotal(Len(allEvents \o Page(offset)), totalAvailable)
               THEN /\ VenueReturn(SuccessData(allEvents \o Page(offset)))
                    /\ UNCHANGED offset
               ELSE /\ offset' = offset + limit
                    /\ UNCHANGED <<pc, result>>
    /\ UNCHANGED <<variant, source, limit, totalAvailable, upcomingEvents, idx,
                   attempt, eventsWithTickets, sub, data>>
    /\ UNCHANGED restOfRun

\* ---- SimplifiedVenueManager.getUpcomingEvents (variant "simplified") ----
\* the bodies of a successful RSVP request ({total}) and of a successful
\* bookings request ({bookings}, given by the length of the list)
RsvpBodies == {[total |-> Null], [total |-> Some(3)]}
BookingBodies == {[bookings |-> Null], [bookings |-> Some(2)]}

\* a Promise.all callback suspended at its RSVP request (simplified-venue-manager.js:65-74)
SubStart ==
    [pc |-> "rsvps", rsvpCount |-> 0, ticketsSold |-> 0,
     rsvpsResp |-> Null, bookingsResp |-> Null]

\* simplified-venue-manager.js:112-115
KeyJamNight == <<"j", "a", "m", " ", "n", "i", "g", "h", "t">>
KeyVoiceLessons == <<"v", "o", "i", "c", "e", " ", "l", "e", "s", "s", "o", "n", "s">>
IsRecurring(title) ==
    LET lower == ToLowerCase(title)
    IN  \/ Includes(lower, KeyOpenMic)
        \/ Includes(lower, KeyJamNight)
        \/ Includes(lower, KeyVoiceLessons)

\* simplified-venue-manager.js:94-120
PopularityStatusCountsFirst(rsvpCount, ticketsSold, isRecurring) ==
    IF rsvpCount > 0 \/ ticketsSold > 0
    THEN (IF rsvpCount + ticketsSold > 20 THEN "high"
          ELSE IF rsvpCount + ticketsSold > 10 THEN "medium"
          ELSE "low")
    ELSE IF isRecurring THEN "recurring"
    ELSE "info"
PopularityStatus(rsvpCount, ticketsSold, isRecurring) ==
    IF isRecurring THEN "recurring"
    ELSE IF rsvpCount > 0 \/ ticketsSold > 0
    THEN (IF rsvpCount + ticketsSold > 20 THEN "high"
          ELSE IF rsvpCount + ticketsSold > 10 THEN "medium"
          ELSE "low")
    ELSE "info"

\* the object a callback returns (simplified-venue-manager.js:127-138)
EnrichSimplified(id, c) ==
    LET isRecurring == IsRecurring(TitleOf(id))
    IN  [id |-> id,
         rsvpCount |-> c.rsvpCount,
         ticketsSold |-> c.ticketsSold,
         totalAttendance |-> c.rsvpCount + c.ticketsSold,
         daysFromNow |-> StartDay(id),
         popularityStatus |-> PopularityStatus(c.rsvpCount, c.ticketsSold, isRecurring),
         isRecurring |-> isRecurring]

\* getUpcomingEvents returns (simplified-venue-manager.js:142-152)
SimplifiedReturn(d) ==
    /\ pc' = "done"
    /\ result' = Some(d)

\* after the pagination loop: filter, sort, slice, and start every callback
\* of Promise.all (simplified-venue-manager.js:49-74)
SimplifiedAfterPages(all, off) ==
    /\ allEvents' = all
    /\ offset' = off
    /\ upcomingEvents' = UpcomingOf(all, limit)
    /\ sub' = [i \in 1..Len(UpcomingOf(all, limit)) |-> SubStart]
    /\ IF Len(UpcomingOf(all, limit)) = 0
       THEN SimplifiedReturn(SuccessData(<<>>))
       ELSE pc' = "enrich" /\ UNCHANGED result

\* one iteration of the pagination loop (simplified-venue-manager.js:35-47)
SimplifiedFetchPage(status) ==
    /\ variant = "simplified"
    /\ pc = "page"
    /\ io' = Append(io, HttpRequest("events", offset, 1, status, Len(Page(offset))))
    /\ IF status # 200
       THEN /\ SimplifiedReturn(FailureData)
            /\ UNCHANGED <<allEvents, offset, upcomingEvents, sub>>
       ELSE IF Len(Page(offset)) = 0 THEN SimplifiedAfterPages(allEvents, offset)
       ELSE IF Len(Page(offset)) < batchSize
            THEN SimplifiedAfterPages(allEvents \o Page(offset), offset + batchSize)
       ELSE /\ allEvents' = allEvents \o Page(offset)
            /\ offset' = offset + batchSize
            /\ UNCHANGED <<pc, upcomingEvents, sub, result>>
    /\ UNCHANGED <<variant, source, limit, totalAvailable, idx, attempt,
                   eventsWithTickets, data>>
    /\ UNCHANGED restOfRun

\* the RSVP request of event i settles (simplified-venue-manager.js:70-84)
SimplifiedRsvps(i, status, body) ==
    /\ variant = "simplified"
    /\ pc = "enrich"
    /\ i \in 1..Len(sub)
    /\ sub[i].pc = "rsvps"
    /\ sub' = [sub EXCEPT ![i] =
                 [@ EXCEPT !.pc = "bookings",
                           !.rsvpCount = IF status = 200 THEN OrElse(body.total, 0) ELSE @,
                           !.rsvpsResp = Some([status |-> status,
                                               body |-> IF status = 200 THEN Some(body) ELSE Null])]]
    /\ UNCHANGED <<variant, source, pc, limit, totalAvailable, allEvents, offset, io,
                   upcomingEvents, idx, attempt, eventsWithTickets, data, result>>
    /\ UNCHANGED restOfRun

\* the bookings request of event i settles and its callback returns; the
\* last callback to return resolves Promise.all (simplified-venue-manager.js:80-147)
SimplifiedBookings(i, status, body) ==
    /\ variant = "simplified"
    /\ pc = "enrich"
    /\ i \in 1..Len(sub)
    /\ sub[i].pc = "bookings"
    /\ LET settled ==
             [sub EXCEPT ![i] =
                [@ EXCEPT !.pc = "done",
                          !.ticketsSold = IF status = 200 THEN OrElse(body.bookings, 0) ELSE @,
                          !.bookingsResp = Some([status |-> status,
                                                 body |-> IF status = 200 THEN Some(body) ELSE Null])]]
       IN /\ sub' = settled
          /\ IF \A j \in 1..Len(settled) : settled[j].pc = "done"
             THEN SimplifiedReturn(SuccessData(
                     [j \in 1..Len(settled) |-> EnrichSimplified(upcomingEvents[j], settled[j])]))
             ELSE UNCHANGED <<pc, result>>
    /\ UNCHANGED <<variant, source, limit, totalAvailable, allEvents, offset, io,
                   upcomingEvents, idx, attempt, eventsWithTickets, data>>
    /\ UNCHANGED restOfRun

\* ---- Promise.all over the upcoming events (part_002:209-242, 491-521) ----
\* the sub-requests of these two classes, like the RSVP and bookings requests
\* of SimplifiedVenueManager, are never retried: 429 is a failure like any other
SubStatuses == {200, 500}

\* Promise.all keeps one slot per callback and puts the value a callback
\* returns into the slot of that callback's index
FirstEmpty(values) ==
    CHOOSE j \in 1..Len(values) :
        values[j] = Null /\ \A k \in 1..(j - 1) : values[k] # Null
SettleInArrivalOrder(values, i, v) == [values EXCEPT ![FirstEmpty(values)] = Some(v)]
SettleAt(values, i, v) == [values EXCEPT ![i] = Some(v)]
AllSettled(values) == \A j \in 1..Len(values) : values[j] # Null
Values(values) == [j \in 1..Len(values) |-> values[j][1]]

\* ---- TicketSalesManager.getUpcomingEventsWithSales (variant "sales") ----
\* GET /events/v1/orders lists the orders of the whole site, each with its
\* eventId: one order per upcoming event and a second one for the latest
\* event of the source
OrderBook ==
    [k \in 1..source.upcoming |-> source.n - source.upcoming + k] \o
    (IF source.upcoming > 0 THEN <<source.n>> ELSE <<>>)
OrdersBodies == {[orders |-> Null], [orders |-> Some(OrderBook)]}

\* getEventTickets and getEventOrders of TicketSalesManager on a first page
\* shorter than 100 (part_002:39-54, 75-91)
SalesTicketsOk(body) ==
    [success |-> TRUE, tickets |-> OrElse(body.tickets, <<>>),
     total |-> Len(OrElse(body.tickets, <<>>))]
SalesOrdersOk(body, eventId) ==
    LET eventOrders == SelectSeq(OrElse(body.orders, <<>>), LAMBDA o : o = eventId)
    IN [success |-> TRUE, orders |-> eventOrders, total |-> Len(eventOrders)]
FailedOrders == [success |-> FALSE, orders |-> <<>>, total |-> 0]

\* part_002:258-268
GetSalesStatus(ticketsSold, daysFromNow) ==
    IF ticketsSold = 0 THEN (IF daysFromNow <= 7 THEN "urgent" ELSE "low")
    ELSE IF ticketsSold < 10 THEN "low"
    ELSE IF ticketsSold < 25 THEN "medium"
    ELSE "high"

\* a callback suspended at its two requests (part_002:211-214)
SalesStart ==
    [tickets |-> Null, orders |-> Null, ticketsResp |-> Null, ordersResp |-> Null]

\* the object a callback returns for an upcoming event (part_002:216-240;
\* prices are not modelled)
SalesEntryOf(event, ticketsResult, ordersResult) ==
    [id |-> event.id,
     ticketsSold |-> ticketsResult.total,
     ordersCount |-> ordersResult.total,
     daysFromNow |-> event.daysFromNow,
     salesStatus |-> GetSalesStatus(ticketsResult.total, event.daysFromNow)]
SalesEntry(id, ticketsResult, ordersResult) ==
    SalesEntryOf([id |-> id, title |-> TitleOf(id), daysFromNow |-> StartDay(id),
                  location |-> Null],
                 ticketsResult, ordersResult)

\* getUpcomingEventsWithSales returns (part_002:244-254)
SalesReturn(d) ==
    /\ pc' = "done"
    /\ result' = Some(d)

\* after the pagination loop: filter, sort, slice, and start every callback
\* of Promise.all (part_002:195-214)
SalesAfterPages(all, off) ==
    /\ allEvents' = all
    /\ offset' = off
    /\ upcomingEvents' = UpcomingOf(all, limit)
    /\ sub' = [i \in 1..Len(UpcomingOf(all, limit)) |-> SalesStart]
    /\ eventsWithTickets' = [i \in 1..Len(UpcomingOf(all, limit)) |-> Null]
    /\ IF Len(UpcomingOf(all, limit)) = 0
       THEN SalesReturn(SuccessData(<<>>))
       ELSE pc' = "enrich" /\ UNCHANGED result

\* one iteration of the pagination loop (part_002:180-192)
SalesFetchPage(status) ==
    /\ variant = "sales"
    /\ pc = "page"
    /\ io' = Append(io, HttpRequest("events", offset, 1, status, Len(Page(offset))))
    /\ IF status # 200
       THEN /\ SalesReturn(FailureData)
            /\ UNCHANGED <<allEvents, offset, upcomingEvents, sub, eventsWithTickets>>
       ELSE IF Len(Page(offset)) = 0 THEN SalesAfterPages(allEvents, offset)
       ELSE IF Len(Page(offset)) < batchSize
            THEN SalesAfterPages(allEvents \o Page(offset), offset + batchSize)
       ELSE /\ allEvents' = allEvents \o Page(offset)
            /\ offset' = offset + batchSize
            /\ UNCHANGED <<pc, upcomingEvents, sub, eventsWithTickets, result>>
    /\ UNCHANGED <<variant, source, limit, totalAvailable, idx, attempt, data>>
    /\ UNCHANGED restOfRun

\* callback i goes on as c: once both of its requests have settled it
\* returns its entry, and the last callback to return resolves Promise.all
\* (part_002:209-249)
SalesCallback(i, c) ==
    LET values ==
          IF c.tickets # Null /\ c.orders # Null
          THEN SettleAt(eventsWithTickets, i,
                        SalesEntry(upcomingEvents[i], c.tickets[1], c.orders[1]))
          ELSE eventsWithTickets
    IN /\ sub' = [sub EXCEPT ![i] = c]
       /\ eventsWithTickets' = values
       /\ IF AllSettled(values)
          THEN SalesReturn(SuccessData(Values(values)))
          ELSE UNCHANGED <<pc, result>>

\* getEventTickets of event i settles (part_002:26-59, 212)
SalesTickets(i, status, body) ==
    /\ variant = "sales"
    /\ pc = "enrich"
    /\ i \in 1..Len(sub)
    /\ sub[i].tickets = Null
    /\ SalesCallback(i, [sub[i] EXCEPT
          !.tickets = Some(IF status = 200 THEN SalesTicketsOk(body) ELSE FailedTickets),
          !.ticketsResp = Some([status |-> status,
                                body |-> IF status = 200 THEN Some(body) ELSE Null])])
    /\ UNCHANGED <<variant, source, limit, totalAvailable, allEvents, offset, io,
                   upcomingEvents, idx, attempt, data>>
    /\ UNCHANGED restOfRun

\* getEventOrders of event i settles (part_002:62-96, 213)
SalesOrders(i, status, body) ==
    /\ variant = "sales"
    /\ pc = "enrich"
    /\ i \in 1..Len(sub)
    /\ sub[i].orders = Null
    /\ SalesCallback(i, [sub[i] EXCEPT
          !.orders = Some(IF status = 200 THEN SalesOrdersOk(body, upcomingEvents[i])
                          ELSE FailedOrders),
          !.ordersResp = Some([status |-> status,
                               body |-> IF status = 200 THEN Some(body) ELSE Null])])
    /\ UNCHANGED <<variant, source, limit, totalAvailable, allEvents, offset, io,
                   upcomingEvents, idx, attempt, data>>
    /\ UNCHANGED restOfRun

\* ---- EnhancedVenueManager.getUpcomingEventsWithRSVPs (variant "enhanced") ----
\* a callback suspended at its RSVP request (part_002:492-496)
EnhancedStart == [pc |-> "rsvps", rsvpsResp |-> Null]

\* the object a callback returns: from the response (part_002:498-509) or
\* from the catch (part_002:510-519)
EnhancedEntry(id, status, body) ==
    [id |-> id,
     rsvpCount |-> IF status = 200 THEN OrElse(body.total, 0) ELSE 0,
     daysFromNow |-> StartDay(id)]

\* getUpcomingEventsWithRSVPs returns (part_002:525-535)
EnhancedReturn(d) ==
    /\ pc' = "done"
    /\ result' = Some(d)

\* after the pagination loop: filter, sort, slice, and start every callback
\* of Promise.all (part_002:476-496)
EnhancedAfterPages(all, off) ==
    /\ allEvents' = all
    /\ offset' = off
    /\ upcomingEvents' = UpcomingOf(all, limit)
    /\ sub' = [i \in 1..Len(UpcomingOf(all, limit)) |-> EnhancedStart]
    /\ eventsWithTickets' = [i \in 1..Len(UpcomingOf(all, limit)) |-> Null]
    /\ IF Len(UpcomingOf(all, limit)) = 0
       THEN EnhancedReturn(SuccessData(<<>>))
       ELSE pc' = "enrich" /\ UNCHANGED result

\* one iteration of the pagination loop (part_002:461-474)
EnhancedFetchPage(status) ==
    /\ variant = "enhanced"
    /\ pc = "page"
    /\ io' = Append(io, HttpRequest("events", offset, 1, status, Len(Page(offset))))
    /\ IF status # 200
       THEN /\ EnhancedReturn(FailureData)
            /\ UNCHANGED <<allEvents, offset, upcomingEvents, sub, eventsWithTickets>>
       ELSE IF Len(Page(offset)) = 0 THEN EnhancedAfterPages(allEvents, offset)
       ELSE IF Len(Page(offset)) < batchSize
            THEN EnhancedAfterPages(allEvents \o Page(offset), offset + batchSize)
       ELSE /\ allEvents' = allEvents \o Page(offset)
            /\ offset' = offset + batchSize
            /\ UNCHANGED <<pc, upcomingEvents, sub, eventsWithTickets, result>>
    /\ UNCHANGED <<variant, source, limit, totalAvailable, idx, attempt, data>>
    /\ UNCHANGED restOfRun

\* the RSVP request of event i settles and its callback returns; the last
\* callback to return resolves Promise.all (part_002:491-530)
EnhancedRsvps(i, status, body) ==
    /\ variant = "enhanced"
    /\ pc = "enrich"
    /\ i \in 1..Len(sub)
    /\ sub[i].pc = "rsvps"
    /\ sub' = [sub EXCEPT ![i] =
                 [pc |-> "done",
                  rsvpsResp |-> Some([status |-> status,
                                      body |-> IF status = 200 THEN Some(body) ELSE Null])]]
    /\ LET values == SettleAt(eventsWithTickets, i,
                              EnhancedEntry(upcomingEvents[i], status, body))
       IN /\ eventsWithTickets' = values
          /\ IF AllSettled(values)
             THEN EnhancedReturn(SuccessData(Values(values)))
             ELSE UNCHANGED <<pc, result>>
    /\ UNCHANGED <<variant, source, limit, totalAvailable, allEvents, offset, io,
                   upcomingEvents, idx, attempt, data>>
    /\ UNCHANGED restOfRun

InitRun == ServerOff /\ RunInit /\ VenueOff /\ ReportOff /\ OthersOff

NextRun ==
    \/ \E status \in Statuses : FinalFetchPage(status)
    \/ \E status \in Statuses, body \in TicketBodies : FinalFetchTickets(status, body)
    \/ \E status \in Statuses : VenueFirstPage(status)
    \/ \E status \in Statuses : VenueNextPage(status)
    \/ \E status \in Statuses : SimplifiedFetchPage(status)
    \/ \E i \in 1..MaxUpcoming + 1, status \in SubStatuses, body \in RsvpBodies :
         SimplifiedRsvps(i, status, body)
    \/ \E i \in 1..MaxUpcoming + 1, status \in SubStatuses, body \in BookingBodies :
         SimplifiedBookings(i, status, body)
    \/ \E status \in Statuses : SalesFetchPage(status)
    \/ \E i \in 1..2, status \in SubStatuses, body \in TicketBodies :
         SalesTickets(i, status, body)
    \/ \E i \in 1..2, status \in SubStatuses, body \in OrdersBodies :
         SalesOrders(i, status, body)
    \/ \E status \in Statuses : EnhancedFetchPage(status)
    \/ \E i \in 1..MaxUpcoming + 1, status \in SubStatuses, body \in RsvpBodies :
         EnhancedRsvps(i, status, body)

SpecRun == InitRun /\ [][NextRun]_vars

\* ------------------------------------------------------------------------
\* Properties of the server (checked under Spec)
\* ------------------------------------------------------------------------
\* the body GET /api/events/cached builds from Report r and timestamp t
CachedBodyOf(r, t) ==
    [ref |-> r.ref, summary |-> r.summary, events |-> r.events,
     generatedAt |-> r.generatedAt, lastUpdated |-> Some(t)]

\* the successful runs among the first k completed ones
SuccessesUpTo(k) == {i \in 1..k : finished[i].success}
LastSuccessUpTo(k) == CHOOSE i \in SuccessesUpTo(k) : \A j \in SuccessesUpTo(k) : j <= i

\* C1: every 200 response of /api/events/cached is one complete Report of a
\* run that had succeeded before the read, together with the timestamp
\* written in the step that stored that Report; never fields of two Reports,
\* never a Report with another run's timestamp.
C1_CachedReadIsOneSnapshot ==
    \A k \in 1..Len(cachedLog) :
        cachedLog[k].status = 200 =>
            \E i \in SuccessesUpTo(cachedLog[k].after) :
                cachedLog[k].body = Some(CachedBodyOf(finished[i].report[1], finished[i].at))

\* a read answered with the pre-refresh Report while the next run was still in
\* flight, the next run then succeeding at a later time
C1_Witness ==
    /\ Len(finished) = 2
    /\ finished[1].success /\ finished[2].success
    /\ \E k \in 1..Len(cachedLog) :
          /\ cachedLog[k].status = 200
          /\ cachedLog[k].after = 1

\* C2 as stated: at most one execution of generateTicketReport is in progress
C2_AtMostOneRunInProgress ==
    \A g, h \in 1..MaxHandlers : (runsOf[g] > 0 /\ runsOf[h] > 0) => g = h

\* C2 amended: every invocation of updateCache or GET /api/events has exactly
\* one execution of generateTicketReport in progress while it awaits the
\* report and none otherwise; the runs of different invocations may overlap.
C2_OneRunPerInvocation ==
    \A h \in 1..MaxHandlers :
        /\ runsOf[h] \in {0, 1}
        /\ (runsOf[h] = 1) <=> (handlers[h].pc = "awaitReport")

\* two runs in progress at once: the startup refresh and a GET /api/events
C2_Witness ==
    /\ runsOf[1] = 1
    /\ \E h \in 2..MaxHandlers : runsOf[h] = 1 /\ handlers[h].kind = "apiEvents"

\* C3: the cache, and every 200 response of /api/events/cached, holds the
\* Report of the successful run that completed last (in completion order);
\* while no run has succeeded the cache is empty.
C3_LatestCompletedRunIsServed ==
    /\ IF SuccessesUpTo(Len(finished)) = {}
       THEN latestReport = Null
       ELSE latestReport = finished[LastSuccessUpTo(Len(finished))].report
    /\ \A k \in 1..Len(cachedLog) :
          cachedLog[k].status = 200 =>
             /\ SuccessesUpTo(cachedLog[k].after) # {}
             /\ cachedLog[k].body[1].ref
                   = finished[LastSuccessUpTo(cachedLog[k].after)].run

\* the run started first completed last, and a later read served its Report
C3_Witness ==
    /\ Len(finished) = 2
    /\ finished[1].success /\ finished[2].success
    /\ finished[1].run > finished[2].run
    /\ \E k \in 1..Len(cachedLog) :
          cachedLog[k].status = 200 /\ cachedLog[k].after = 2

\* C4: /api/events/cached answers 404 exactly while no run has succeeded,
\* otherwise 200 with the stored Report; and a successful GET /api/events
\* leaves in the cache the very Report it sends to its caller.
C4_CachedIs404UntilFirstSuccess ==
    [][ /\ cachedLog' # cachedLog =>
            LET r == cachedLog'[Len(cachedLog')] IN
            /\ r.status \in {200, 404}
            /\ (r.status = 404) <=> (SuccessesUpTo(Len(finished)) = {})
            /\ r.status = 200 =>
                 r.body = Some(CachedBodyOf(latestReport[1], lastUpdated[1]))
        /\ \A h \in 1..MaxHandlers :
             (apiResp'[h] # apiResp[h] /\ apiResp'[h].status = 200) =>
                latestReport' = apiResp'[h].body
      ]_vars

\* a 404 before any success, then a GET /api/events?limit=1 that succeeded
\* with an empty Report, then a 200
C4_Witness ==
    /\ Len(cachedLog) = 2
    /\ cachedLog[1].status = 404
    /\ cachedLog[2].status = 200
    /\ cachedLog[2].body[1].events = 0
    /\ \E h \in 1..MaxHandlers :
          /\ handlers[h].limit = 1
          /\ apiResp[h].status = 200
          /\ apiResp[h].body[1].ref = cachedLog[2].body[1].ref

\* C5: a failed run leaves latestReport and lastUpdated as they were, and a
\* GET /api/events whose run failed answers 500 with an error field.
C5_FailedRunKeepsCache ==
    [][ (Len(finished') > Len(finished) /\ ~finished'[Len(finished')].success) =>
            LET h == finished'[Len(finished')].run IN
            /\ latestReport' = latestReport
            /\ lastUpdated' = lastUpdated
            /\ handlers[h].kind = "apiEvents" =>
                  /\ apiResp'[h].status = 500
                  /\ apiResp'[h].error # Null
                  /\ apiResp'[h].body = Null
      ]_vars

\* a run failed after another had succeeded; the earlier Report is still served
C5_Witness ==
    /\ Len(finished) = 2
    /\ finished[1].success /\ ~finished[2].success
    /\ handlers[finished[2].run].kind = "apiEvents"
    /\ apiResp[finished[2].run].status = 500
    /\ latestReport = finished[1].report
    /\ \E k \in 1..Len(cachedLog) : cachedLog[k].after = 2 /\ cachedLog[k].status = 200

\* ------------------------------------------------------------------------
\* Properties of one pipeline run (checked under SpecRun)
\* ------------------------------------------------------------------------
EventRequests == {k \in 1..Len(io) : io[k].kind = "events"}
TicketRequests == {k \in 1..Len(io) : io[k].kind = "tickets"}
TicketRequestsFor(e) == {k \in TicketRequests : io[k].arg = e}
AllPagesOk == \A k \in EventRequests : io[k].status = 200
\* the events 1..n of the source, in source order
SourceEvents == [i \in 1..source.n |-> i]

\* C6: once a request of the event-list pagination has failed, the run is
\* over: getUpcomingEventsWithTickets and generateTicketReport both return
\* success=false with an error, no event list and no report, and no ticket
\* request was issued.
C6_PrimaryFailureAbortsRun ==
    (variant = "final" /\ ~AllPagesOk) =>
        /\ pc = "done"
        /\ data # Null /\ result # Null
        /\ ~data[1].success /\ data[1].error # Null /\ data[1].events = Null
        /\ ~result[1].success /\ result[1].error # Null /\ result[1].report = Null
        /\ TicketRequests = {}

\* the second page failed after the first page had been fetched
C6_Witness ==
    /\ variant = "final"
    /\ source.upcoming > 0
    /\ \E k \in EventRequests : io[k].arg = batchSize /\ io[k].status # 200
    /\ \E k \in EventRequests : io[k].arg = 0 /\ io[k].status = 200
    /\ pc = "done"

\* the last ticket response of the event at position i of upcomingEvents
LastTicketRequest(e) ==
    CHOOSE k \in TicketRequestsFor(e) : \A j \in TicketRequestsFor(e) : j <= k
OwnTicketsResult(e) ==
    LET k == LastTicketRequest(e)
    IN IF io[k].status = 200 THEN TicketsOk(io[k].body[1]) ELSE FailedTickets

\* C7: with the event list fetched, a failing ticket fetch never ends the run
\* in failure; every enriched entry carries the counts of its own event's
\* fetch, zero (tickets empty, total 0) when that fetch failed; and the run
\* returns success=true with one entry per upcoming event, in order.
C7_Final ==
    (variant = "final" /\ AllPagesOk) =>
        /\ \A i \in 1..Len(eventsWithTickets) :
              LET e == upcomingEvents[i]
                  r == OwnTicketsResult(e)
              IN /\ eventsWithTickets[i].id = e
                 /\ eventsWithTickets[i].ticketsSold = r.total
                 /\ eventsWithTickets[i].paidTickets = CountPaid(r.tickets)
                 /\ eventsWithTickets[i].freeTickets = CountFree(r.tickets)
                 /\ io[LastTicketRequest(e)].status # 200 =>
                       /\ eventsWithTickets[i].ticketsSold = 0
                       /\ eventsWithTickets[i].paidTickets = 0
                       /\ eventsWithTickets[i].freeTickets = 0
        /\ pc = "done" =>
              /\ result[1].success /\ data[1].success
              /\ data[1].events = Some(eventsWithTickets)
              /\ Len(eventsWithTickets) = Len(upcomingEvents)

\* the count a callback of Promise.all takes from a response
OwnRsvpCount(c) ==
    IF c.rsvpsResp[1].status = 200 THEN OrElse(c.rsvpsResp[1].body[1].total, 0) ELSE 0
OwnBookingCount(c) ==
    IF c.bookingsResp[1].status = 200 THEN OrElse(c.bookingsResp[1].body[1].bookings, 0) ELSE 0

\* the same for SimplifiedVenueManager: every callback ends with the counts
\* of its own two requests, 0 for a failed one, and the run returns one entry
\* per upcoming event, in order
C7_Simplified ==
    (variant = "simplified" /\ AllPagesOk) =>
        /\ \A i \in 1..Len(sub) :
              sub[i].pc = "done" =>
                 /\ sub[i].rsvpCount = OwnRsvpCount(sub[i])
                 /\ sub[i].ticketsSold = OwnBookingCount(sub[i])
        /\ pc = "done" =>
              /\ result[1].success
              /\ Len(result[1].events[1]) = Len(upcomingEvents)
              /\ \A i \in 1..Len(upcomingEvents) :
                    /\ result[1].events[1][i].id = upcomingEvents[i]
                    /\ result[1].events[1][i].rsvpCount = OwnRsvpCount(sub[i])
                    /\ result[1].events[1][i].ticketsSold = OwnBookingCount(sub[i])

C7_SecondaryFailureIsLocal == C7_Final /\ C7_Simplified

\* the first event's fetch failed, the second event kept its 2 tickets
C7_Witness ==
    /\ variant = "final"
    /\ pc = "done"
    /\ Len(upcomingEvents) = 2
    /\ io[LastTicketRequest(upcomingEvents[1])].status # 200
    /\ result[1].success
    /\ Len(eventsWithTickets) = 2
    /\ eventsWithTickets[1].ticketsSold = 0
    /\ eventsWithTickets[2].ticketsSold = 2

\* getEventTickets: at most `retries` requests per event, attempts numbered
\* 1, 2, 3; attempt k+1 exists only after a 429 on attempt k followed by a
\* delay of 2000*k ms; a non-429 failure or a 429 on the last attempt ends the
\* event's requests without failing the run.
TicketRetryIsBounded ==
    \A k \in TicketRequests :
        /\ io[k].attempt \in 1..retries
        /\ io[k].attempt > 1 =>
              /\ k > 2
              /\ io[k - 1] = Delay((io[k].attempt - 1) * RetryDelay)
              /\ io[k - 2].kind = "tickets"
              /\ io[k - 2].arg = io[k].arg
              /\ io[k - 2].attempt = io[k].attempt - 1
              /\ io[k - 2].status = 429
        /\ io[k].attempt = 1 => \A j \in TicketRequestsFor(io[k].arg) : j >= k
        /\ (io[k].status = 429 /\ io[k].attempt < retries /\ k < Len(io)) =>
              io[k + 1] = Delay(io[k].attempt * RetryDelay)
        /\ (io[k].status = 500 \/ (io[k].status = 429 /\ io[k].attempt = retries)) =>
              /\ \A j \in TicketRequestsFor(io[k].arg) : j <= k
              /\ \E i \in 1..Len(eventsWithTickets) :
                    /\ eventsWithTickets[i].id = io[k].arg
                    /\ eventsWithTickets[i].ticketsSold = 0
              /\ pc = "done" => result[1].success

\* C8 as stated: the bounded retry of getEventTickets, and the same retry for
\* the event-list pages: a page answered 429 before the last attempt is
\* requested again
C8_RetryOnEveryRequest ==
    variant = "final" =>
        /\ TicketRetryIsBounded
        /\ \A k \in EventRequests :
              (io[k].status = 429 /\ io[k].attempt < retries) =>
                  \E j \in EventRequests : j > k /\ io[j].arg = io[k].arg

\* C8 amended: the bounded retry applies to getEventTickets only; an
\* event-list page is requested once, and a 429 on it ends the run in failure
C8_RetryOnTicketsOnly ==
    variant = "final" =>
        /\ TicketRetryIsBounded
        /\ \A k \in EventRequests :
              /\ io[k].attempt = 1
              /\ \A j \in EventRequests : io[j].arg = io[k].arg => j = k
              /\ io[k].status = 429 =>
                    /\ k = Len(io)
                    /\ pc = "done"
                    /\ ~result[1].success

\* an event was rate limited three times (delays 2000 and 4000 between the
\* attempts); the run went on and succeeded
C8_Witness ==
    /\ variant = "final"
    /\ pc = "done"
    /\ result[1].success
    /\ \E k \in TicketRequests :
          /\ io[k].attempt = retries
          /\ io[k].status = 429
          /\ io[k - 1] = Delay(2 * RetryDelay)
          /\ io[k - 3] = Delay(RetryDelay)

\* the list the pagination gathered
Gathered == IF variant = "venue" THEN result[1].events[1] ELSE allEvents

\* C9: with every request answered and the total either absent or equal to
\* the number of events, the pagination returns the source's events, each
\* exactly once, in source order.
C9_AllEventsExactlyOnce ==
    (/\ pc = "done"
     /\ AllPagesOk
     /\ source.total \in {Null, Some(source.n)}) =>
        /\ variant = "venue" => result[1].success
        /\ Gathered = SourceEvents

\* an empty page served to the request at position k of io
EmptyPageAt(k) == k \in EventRequests /\ io[k].status = 200 /\ io[k].body = Some(0)

\* C10 as stated: after an empty page no further page is requested, and the
\* run returns what it gathered with success=true
C10_NoRequestAfterEmptyPage ==
    \A k \in 1..Len(io) :
        EmptyPageAt(k) =>
            /\ \A j \in EventRequests : j <= k
            /\ pc \notin {"page", "first", "loop"}
            /\ variant = "venue" =>
                  /\ pc = "done"
                  /\ result[1].success /\ result[1].events = Some(allEvents)

\* C10 amended: the loop ends after at most n/100 + 2 requests; an empty page
\* fetched inside the loop (in getAllEvents: any page but the first) ends it,
\* and getAllEvents returns what it gathered with success=true; an empty
\* first page of getAllEvents does not end it while the declared total is
\* positive: one more page is requested.
C10_EmptyPageInLoopStops ==
    /\ Cardinality(EventRequests) <= (source.n \div batchSize) + 2
    /\ \A k \in 1..Len(io) :
          (EmptyPageAt(k) /\ (variant # "venue" \/ k > 1)) =>
              /\ \A j \in EventRequests : j <= k
              /\ pc \notin {"page", "first", "loop"}
              /\ variant = "venue" =>
                    /\ pc = "done"
                    /\ result[1].success /\ result[1].events = Some(allEvents)
    /\ (variant = "venue" /\ EmptyPageAt(1) /\ BelowTotal(0, source.total)) =>
          \/ Len(io) = 1 /\ pc = "loop" /\ offset = batchSize
          \/ Len(io) = 2 /\ io[2].kind = "events" /\ io[2].arg = batchSize

\* getAllEvents got an empty page at offset 200 while 200 < total, and
\* returned the 200 events gathered
C10_Witness ==
    /\ variant = "venue"
    /\ pc = "done"
    /\ source.n = 2 * batchSize
    /\ source.total = Some(source.n + 1)
    /\ EmptyPageAt(Len(io))
    /\ Len(io) = 3
    /\ result[1].success
    /\ Len(result[1].events[1]) = 2 * batchSize

\* the counts a callback of TicketSalesManager's Promise.all takes from the
\* responses to its own two requests
OwnTicketCount(c) ==
    IF c.ticketsResp[1].status = 200
    THEN Len(OrElse(c.ticketsResp[1].body[1].tickets, <<>>)) ELSE 0
OwnOrderCount(id, c) ==
    IF c.ordersResp[1].status = 200
    THEN LET orders == OrElse(c.ordersResp[1].body[1].orders, <<>>)
         IN Cardinality({k \in 1..Len(orders) : orders[k] = id})
    ELSE 0

\* C14: under Promise.all the enriched list has the length and the order of
\* the sorted upcoming list, and entry i carries the id of upcoming event i
\* and the counts of the responses to that event's own requests (0 for a
\* failed one), in whatever order the requests settle; while requests are
\* still pending, every slot already filled holds its own event's entry.
C14_MergedByIndex ==
    /\ (variant \in {"sales", "enhanced"} /\ pc = "enrich") =>
          /\ Len(eventsWithTickets) = Len(upcomingEvents)
          /\ \A i \in 1..Len(eventsWithTickets) :
                eventsWithTickets[i] # Null =>
                    eventsWithTickets[i][1].id = upcomingEvents[i]
    /\ (variant \in {"simplified", "sales", "enhanced"} /\ pc = "done" /\ AllPagesOk) =>
          /\ result[1].success
          /\ Len(result[1].events[1]) = Len(upcomingEvents)
          /\ \A i \in 1..Len(upcomingEvents) :
                LET e == result[1].events[1][i]
                IN /\ e.id = upcomingEvents[i]
                   /\ variant = "sales" =>
                         /\ e.ticketsSold = OwnTicketCount(sub[i])
                         /\ e.ordersCount = OwnOrderCount(upcomingEvents[i], sub[i])
                   /\ variant = "enhanced" => e.rsvpCount = OwnRsvpCount(sub[i])
                   /\ variant = "simplified" =>
                         /\ e.rsvpCount = OwnRsvpCount(sub[i])
                         /\ e.ticketsSold = OwnBookingCount(sub[i])
          /\ \A i, j \in 1..Len(upcomingEvents) :
                i < j => result[1].events[1][i].daysFromNow
                            <= result[1].events[1][j].daysFromNow

\* two upcoming events enriched by TicketSalesManager: the first has 2
\* tickets and its 2 orders, the second lost its tickets request and has
\* its 1 order
C14_Witness ==
    /\ variant = "sales"
    /\ pc = "done"
    /\ result[1].success
    /\ Len(result[1].events[1]) = 2
    /\ result[1].events[1][1].ticketsSold = 2
    /\ result[1].events[1][1].ordersCount = 2
    /\ sub[2].ticketsResp[1].status # 200
    /\ result[1].events[1][2].ticketsSold = 0
    /\ result[1].events[1][2].ordersCount = 1

\* ------------------------------------------------------------------------
\* VenueEventsManager's views of the event list: getDashboard,
\* getUpcomingEvents, getPastEvents (venue-manager.js:79-142, 181-222)
\* ------------------------------------------------------------------------
MaxListed == 3      \* events in the list getAllEvents returns
MaxInstant == 2     \* the instants are 0..MaxInstant

Instants == 0..MaxInstant

\* event.scheduling?.config?.startDate as the upstream sends it: absent, the
\* ISO timestamp of instant t, or a string that is no date ("TBD")
StartDates ==
    {Null} \cup {Some([iso |-> TRUE, t |-> t]) : t \in Instants}
           \cup {Some([iso |-> FALSE, t |-> 0])}

\* the events of a list: the id is the position in the upstream's order
EventsOf(startDates) ==
    [i \in 1..Len(startDates) |-> [id |-> i, startDate |-> startDates[i]]]
EventLists == {EventsOf(d) : d \in UNION {[1..n -> StartDates] : n \in 0..MaxListed}}

\* the time value of a Date: <<>> is NaN, the time value of Invalid Date
NaN == <<>>

\* new Date(x): undefined and unparsable strings give Invalid Date
NewDateOrEpoch(startDate) ==
    IF startDate # Null /\ startDate[1].iso THEN Some(startDate[1].t) ELSE Some(0)
NewDate(startDate) ==
    IF startDate # Null /\ startDate[1].iso THEN Some(startDate[1].t) ELSE NaN

\* a > b, a <= b and a - b on Dates: a comparison with NaN is false, a
\* difference with NaN is NaN
DateGreater(a, b) == a # NaN /\ b # NaN /\ a[1] > b[1]
DateLessOrEqual(a, b) == a # NaN /\ b # NaN /\ a[1] <= b[1]
DateMinus(a, b) == IF a = NaN \/ b = NaN THEN NaN ELSE Some(a[1] - b[1])

\* the filters (venue-manager.js:90-93, 123-126, 195-198, 202-205)
IsUpcoming(event, now) == DateGreater(NewDate(event.startDate), Some(now))
IsPastStrictly(event, now) == DateLessOrEqual(NewDate(event.startDate), Some(now - 1))
IsPast(event, now) == DateLessOrEqual(NewDate(event.startDate), Some(now))

\* the comparators (venue-manager.js:96-98, 129-131, 198-200, 205-207)
Unordered(a, b, latestFirst) == Some(0)
Comparator(a, b, latestFirst) ==
    IF latestFirst
    THEN DateMinus(NewDate(b.startDate), NewDate(a.startDate))
    ELSE DateMinus(NewDate(a.startDate), NewDate(b.startDate))

\* Array.prototype.sort: stable; a comparator result of NaN counts as 0
RECURSIVE InsertEvent(_, _, _)
InsertEvent(e, s, latestFirst) ==
    IF s = <<>> THEN <<e>>
    ELSE LET v == Comparator(e, Head(s), latestFirst)
         IN IF v # NaN /\ v[1] < 0 THEN <<e>> \o s
            ELSE <<Head(s)>> \o InsertEvent(e, Tail(s), latestFirst)
RECURSIVE SortEvents(_, _)
SortEvents(s, latestFirst) ==
    IF s = <<>> THEN <<>>
    ELSE InsertEvent(s[Len(s)], SortEvents(SubSeq(s, 1, Len(s) - 1), latestFirst),
                     latestFirst)

UpcomingAt(events, now) ==
    SortEvents(SelectSeq(events, LAMBDA e : IsUpcoming(e, now)), FALSE)
PastAt(events, now) ==
    SortEvents(SelectSeq(events, LAMBDA e : IsPast(e, now)), TRUE)

\* list[0] || null
FirstOrNull(list) == IF list = <<>> THEN Null ELSE Some(list[1])

\* the object getDashboard builds (venue-manager.js:209-215)
Dashboard(events, now) ==
    [totalEvents |-> Len(events),
     upcomingEvents |-> Len(UpcomingAt(events, now)),
     pastEvents |-> Len(PastAt(events, now)),
     nextEvent |-> FirstOrNull(UpcomingAt(events, now)),
     recentEvent |-> FirstOrNull(PastAt(events, now))]

\* what a call leaves behind: the value it returned and, for the
\* properties, the clock reading and the lists it computed on the way
CallFailed == [fetched |-> FALSE, now |-> Null, upcoming |-> <<>>, past |-> <<>>,
               returned |-> FailureData]

VenueInit ==
    /\ vmEvents \in EventLists
    /\ vmClock = 0
    /\ vmDashboard = Null
    /\ vmUpcoming = Null
    /\ vmPast = Null

\* getDashboard resumes with the result of getAllEvents (venue-manager.js:186-217)
GetDashboard(fetched, now) ==
    /\ vmDashboard = Null
    /\ now >= vmClock
    /\ IF fetched
       THEN /\ vmClock' = now
            /\ vmDashboard' =
                 Some([fetched |-> TRUE, now |-> Some(now),
                       upcoming |-> UpcomingAt(vmEvents, now),
                       past |-> PastAt(vmEvents, now),
                       returned |-> [success |-> TRUE,
                                     dashboard |-> Some(Dashboard(vmEvents, now))]])
       ELSE /\ vmDashboard' = Some([CallFailed EXCEPT !.returned =
                                      [success |-> FALSE, dashboard |-> Null]])
            /\ UNCHANGED vmClock
    /\ UNCHANGED <<vmEvents, vmUpcoming, vmPast>>
    /\ UNCHANGED restOfVenue

\* getUpcomingEvents resumes with the result of getAllEvents (venue-manager.js:84-104)
GetUpcomingEvents(fetched, now) ==
    /\ vmUpcoming = Null
    /\ now >= vmClock
    /\ IF fetched
       THEN /\ vmClock' = now
            /\ vmUpcoming' =
                 Some([fetched |-> TRUE, now |-> Some(now),
                       upcoming |-> UpcomingAt(vmEvents, now), past |-> <<>>,
                       returned |-> SuccessData(UpcomingAt(vmEvents, now))])
       ELSE /\ vmUpcoming' = Some(CallFailed)
            /\ UNCHANGED vmClock
    /\ UNCHANGED <<vmEvents, vmDashboard, vmPast>>
    /\ UNCHANGED restOfVenue

\* getPastEvents resumes with the result of getAllEvents (venue-manager.js:117-137)
GetPastEvents(fetched, now) ==
    /\ vmPast = Null
    /\ now >= vmClock
    /\ IF fetched
       THEN /\ vmClock' = now
            /\ vmPast' =
                 Some([fetched |-> TRUE, now |-> Some(now),
                       upcoming |-> <<>>, past |-> PastAt(vmEvents, now),
                       returned |-> SuccessData(PastAt(vmEvents, now))])
       ELSE /\ vmPast' = Some(CallFailed)
            /\ UNCHANGED vmClock
    /\ UNCHANGED <<vmEvents, vmDashboard, vmUpcoming>>
    /\ UNCHANGED restOfVenue

InitVenue == ServerOff /\ RunOff /\ VenueInit /\ ReportOff /\ OthersOff

NextVenue ==
    \/ \E fetched \in BOOLEAN, now \in Instants : GetDashboard(fetched, now)
    \/ \E fetched \in BOOLEAN, now \in Instants : GetUpcomingEvents(fetched, now)
    \/ \E fetched \in BOOLEAN, now \in Instants : GetPastEvents(fetched, now)

SpecVenue == InitVenue /\ [][NextVenue]_vars

\* ------------------------------------------------------------------------
\* Properties of the venue manager's views (specification SpecVenue)
\* ------------------------------------------------------------------------
\* the event carries a start date that Date can parse
HasStart(e) == e.startDate # Null /\ e.startDate[1].iso
StartOf(e) == e.startDate[1].t
AllStartsValid == \A i \in 1..Len(vmEvents) : HasStart(vmEvents[i])

IdsOf(list) == {list[i].id : i \in 1..Len(list)}
NoDuplicates(list) == Cardinality(IdsOf(list)) = Len(list)

\* the call returned after a successful fetch
Returned(call) == call # Null /\ call[1].fetched

\* the two lists hold every fetched event exactly once
ExactPartition(upcoming, past) ==
    /\ NoDuplicates(upcoming)
    /\ NoDuplicates(past)
    /\ IdsOf(upcoming) \cap IdsOf(past) = {}
    /\ IdsOf(upcoming) \cup IdsOf(past) = IdsOf(vmEvents)

DashboardPartitions ==
    (Returned(vmDashboard) /\ AllStartsValid) =>
        /\ ExactPartition(vmDashboard[1].upcoming, vmDashboard[1].past)
        /\ LET d == vmDashboard[1].returned.dashboard[1]
           IN d.upcomingEvents + d.pastEvents = d.totalEvents

\* C11 as stated: when every event has a valid start date, getDashboard
\* places each event in exactly one of upcoming and past (and upcomingEvents
\* + pastEvents = totalEvents), and so do getUpcomingEvents and
\* getPastEvents called one after the other.
C11_ExactPartition ==
    /\ DashboardPartitions
    /\ (Returned(vmUpcoming) /\ Returned(vmPast) /\ AllStartsValid) =>
          ExactPartition(vmUpcoming[1].returned.events[1], vmPast[1].returned.events[1])

\* C11 amended: getDashboard partitions the events exactly; the lists of
\* getUpcomingEvents and getPastEvents, each computed at its own clock
\* reading, hold every event exactly once except the events that start
\* between the two readings: those are in both lists when getUpcomingEvents
\* read the clock first, in neither when getPastEvents did.
C11_PartitionPerClockReading ==
    /\ DashboardPartitions
    /\ (Returned(vmUpcoming) /\ Returned(vmPast) /\ AllStartsValid) =>
          LET up == vmUpcoming[1].returned.events[1]
              past == vmPast[1].returned.events[1]
              u == vmUpcoming[1].now[1]
              p == vmPast[1].now[1]
          IN /\ NoDuplicates(up)
             /\ NoDuplicates(past)
             /\ IdsOf(up) \cup IdsOf(past) \subseteq IdsOf(vmEvents)
             /\ \A i \in 1..Len(vmEvents) :
                   LET e == vmEvents[i]
                   IN /\ (e.id \in IdsOf(up) /\ e.id \in IdsOf(past))
                            <=> (u < StartOf(e) /\ StartOf(e) <= p)
                      /\ (e.id \notin IdsOf(up) /\ e.id \notin IdsOf(past))
                            <=> (p < StartOf(e) /\ StartOf(e) <= u)

\* three dated events: the dashboard split them 1 + 2, and the event that
\* started between the two list calls is in both lists
C11_Witness ==
    /\ Len(vmEvents) = 3
    /\ AllStartsValid
    /\ Returned(vmDashboard)
    /\ vmDashboard[1].returned.dashboard[1].upcomingEvents = 1
    /\ vmDashboard[1].returned.dashboard[1].pastEvents = 2
    /\ Returned(vmUpcoming)
    /\ Returned(vmPast)
    /\ vmUpcoming[1].now[1] < vmPast[1].now[1]
    /\ IdsOf(vmUpcoming[1].returned.events[1]) \cap IdsOf(vmPast[1].returned.events[1]) # {}

StartingAfter(now) ==
    {vmEvents[i].id : i \in {j \in 1..Len(vmEvents) :
                                HasStart(vmEvents[j]) /\ now < StartOf(vmEvents[j])}}
StartedBy(now) ==
    {vmEvents[i].id : i \in {j \in 1..Len(vmEvents) :
                                HasStart(vmEvents[j]) /\ now >= StartOf(vmEvents[j])}}

MaxWords == 3       \* words in a generated title
MaxSold == 30       \* tickets of the event in the sales status lists
MaxDays == 8        \* days from now of the event in the sales status lists
MaxEvents == 2      \* events in the mixed lists
MaxRanked == 6      \* events in the ranking lists

\* the words of the generated titles
Words ==
    {<<"O", "p", "e", "n">>,
     <<"M", "I", "C">>,
     <<"j", "a", "m">>,
     <<"P", "a", "j", "a", "m", "a">>,
     <<"L", "e", "s", "s", "o", "n", "s">>,
     <<"S", "o", "n", "g", "W", "r", "i", "t", "i", "n", "g">>,
     <<"F", "u", "n", "d", "r", "a", "i", "s", "e", "r">>}
RECURSIVE TitlesOfWords(_)
TitlesOfWords(n) ==
    IF n = 1 THEN Words
    ELSE {t \o <<" ">> \o w : t \in TitlesOfWords(n - 1), w \in Words}
TitleOpenMicNight == <<"O", "p", "e", "n", " ", "M", "i", "c", " ", "N", "i", "g", "h", "t">>
TitleSongwritingWorkshop == <<"S", "p", "r", "i", "n", "g", " ", "S", "o", "n", "g", "w", "r", "i", "t", "i", "n", "g", " ", "W", "o", "r", "k", "s", "h", "o", "p">>
TitleRandomBand == <<"R", "a", "n", "d", "o", "m", " ", "B", "a", "n", "d", " ", "C", "o", "n", "c", "e", "r", "t">>
TitleOpenMicJamFundraiser == <<"O", "p", "e", "n", " ", "M", "i", "c", " ", "J", "a", "m", " ", "F", "u", "n", "d", "r", "a", "i", "s", "e", "r">>
Titles ==
    UNION {TitlesOfWords(n) : n \in 1..MaxWords}
    \cup {TitleOpenMic, TitleJazzNight, TitleFundraiserGala, TitleOpenMicNight,
          TitleSongwritingWorkshop, TitleRandomBand, TitleOpenMicJamFundraiser}
Digits == <<"1", "2", "3", "4", "5", "6", "7", "8", "9">>
TitleAct(k) == <<"A", "c", "t", " ">> \o <<Digits[k]>>

\* the answer to the tickets request of an event: n paid and m free ticket
\* records with the total the response declares, or a failed request
Tickets(paid, free) == [k \in 1..(paid + free) |-> k > paid]
Answer(paid, free, total) ==
    [status |-> 200, body |-> [tickets |-> Some(Tickets(paid, free)), total |-> total]]
NoAnswer == [status |-> 500, body |-> [tickets |-> Null, total |-> Null]]
TicketAnswers ==
    {NoAnswer, Answer(0, 0, Some(0)), Answer(12, 0, Some(12)), Answer(0, 10, Some(10)),
     Answer(20, 5, Some(25)), Answer(1, 0, Null)}

\* an upcoming event as the enrichment loop meets it
Upcoming(id, title, daysFromNow, answer) ==
    [id |-> id, title |-> title, daysFromNow |-> daysFromNow, answer |-> answer,
     location |-> Null]

\* one event under every generated title, no tickets yet
TitledLists == {<<Upcoming(1, t, 3, Answer(0, 0, Some(0)))>> : t \in Titles}
\* one event with every number of tickets and of days
StatusLists ==
    {<<Upcoming(1, TitleJazzNight, d, Answer(n, 0, Some(n)))>> :
        n \in 0..MaxSold, d \in (0 - 1)..MaxDays}
\* up to MaxEvents events of three titles, two dates and every answer,
\* sorted by start date
MixedEvents ==
    {[title |-> t, daysFromNow |-> d, answer |-> a] :
        t \in {TitleOpenMic, TitleJazzNight, TitleFundraiserGala},
        d \in {3, 10}, a \in TicketAnswers}
MixedLists ==
    {[k \in 1..Len(l) |-> Upcoming(k, l[k].title, l[k].daysFromNow, l[k].answer)] :
        l \in {m \in UNION {[1..n -> MixedEvents] : n \in 0..MaxEvents} :
                  \A i, j \in 1..Len(m) : i < j => m[i].daysFromNow <= m[j].daysFromNow}}
\* up to MaxEvents events, each without location or at a venue of some name
Locations == {Null, Some(""), Some(DefaultVenue), Some("Milton Theatre")}
VenueLists ==
    {[k \in 1..Len(l) |->
         [Upcoming(k, TitleJazzNight, 10, Answer(12, 0, Some(12))) EXCEPT !.location = l[k]]] :
        l \in UNION {[1..n -> Locations] : n \in 0..MaxEvents}}
\* one event with up to 2 paid and 2 free ticket records and a declared
\* total of 0 to 4, or none
TotalLists ==
    {<<Upcoming(1, TitleJazzNight, 10, Answer(paid, free, total))>> :
        paid \in 0..2, free \in 0..2, total \in {Null} \cup {Some(n) : n \in 0..4}}
\* the three events of the end-to-end scenario, sorted by start date
ScenarioList ==
    <<Upcoming(1, TitleFundraiserGala, 2, Answer(30, 0, Some(30))),
      Upcoming(2, TitleOpenMic, 3, Answer(0, 0, Some(0))),
      Upcoming(3, TitleJazzNight, 10, Answer(12, 0, Some(12)))>>
\* up to MaxRanked events on one day with 0, 1 or 2 tickets each
RankedLists ==
    {[k \in 1..Len(l) |-> Upcoming(k, TitleAct(k), 10, Answer(l[k], 0, Some(l[k])))] :
        l \in UNION {[1..n -> 0..2] : n \in 0..MaxRanked}}

\* getEventTickets of FinalTicketManager and of TicketSalesManager on an answer
TicketsResultOf(answer) ==
    IF answer.status = 200 THEN TicketsOk(answer.body) ELSE FailedTickets
SalesTicketsResultOf(answer) ==
    IF answer.status = 200 THEN SalesTicketsOk(answer.body) ELSE FailedTickets

ReportInit ==
    /\ rpUpcoming \in TitledLists \cup StatusLists \cup MixedLists
                      \cup {ScenarioList} \cup RankedLists \cup VenueLists
                      \cup TotalLists
    /\ rpData = Null
    /\ rpResult = Null
    /\ rpSales = Null

\* generateTicketReport: getUpcomingEventsWithTickets returns the enriched
\* events, or its failure when the event list could not be fetched, and
\* the report is built in the same turn (final-ticket-manager.js:708-883)
GenerateReport(fetched) ==
    /\ rpData = Null
    /\ LET d == IF fetched
                THEN SuccessData([k \in 1..Len(rpUpcoming) |->
                        EnrichEvent(rpUpcoming[k], TicketsResultOf(rpUpcoming[k].answer))])
                ELSE FailureData
       IN /\ rpData' = Some(d)
          /\ rpResult' = Some(GenerateTicketReport(d))
    /\ UNCHANGED <<rpUpcoming, rpSales>>
    /\ UNCHANGED restOfReport

\* getUpcomingEventsWithSales on the same events; the site has no orders
\* (part_002:209-249)
GetUpcomingEventsWithSales ==
    /\ rpSales = Null
    /\ rpSales' = Some(SuccessData([k \in 1..Len(rpUpcoming) |->
                     SalesEntryOf(rpUpcoming[k], SalesTicketsResultOf(rpUpcoming[k].answer),
                                  SalesOrdersOk([orders |-> Some(<<>>)], rpUpcoming[k].id))]))
    /\ UNCHANGED <<rpUpcoming, rpData, rpResult>>
    /\ UNCHANGED restOfReport

InitReport == ServerOff /\ RunOff /\ VenueOff /\ ReportInit /\ OthersOff

NextReport ==
    \/ \E fetched \in BOOLEAN : GenerateReport(fetched)
    \/ GetUpcomingEventsWithSales

SpecReport == InitReport /\ [][NextReport]_vars

\* ------------------------------------------------------------------------
\* Properties of the reports (specification SpecReport)
\* ------------------------------------------------------------------------
\* the enriched events and the report of a successful generateTicketReport
Reported == rpResult # Null /\ rpResult[1].success
Enriched == rpData[1].events[1]
TheReport == rpResult[1].report[1]

\* the title contains the keyword, whatever the case of its letters
SameLetter(a, b) ==
    a = b \/ \E k \in 1..Len(UpperCase) : {a, b} = {UpperCase[k], LowerCase[k]}
ContainsIgnoringCase(title, key) ==
    \E p \in 0..(Len(title) - Len(key)) :
        \A k \in 1..Len(key) : SameLetter(title[p + k], key[k])

EventTypeNames == {"Open Mic", "Jam Session", "Workshop", "Fundraiser", "Concert"}

\* C15: the event type is that of the first keyword, in the order "open
\* mic", "jam", "lessons" or "songwriting", "fundraiser", that the title
\* contains in any letter case, and Concert when it contains none; it is
\* always one of the five types; "Open Mic Jam Fundraiser" is an Open Mic,
\* "Open Mic Night" an Open Mic, "Spring Songwriting Workshop" a Workshop,
\* "Random Band Concert" a Concert.
C15_FirstKeywordWins ==
    Reported =>
        \A k \in 1..Len(Enriched) :
            LET title == rpUpcoming[k].title
                type == Enriched[k].eventType
                openMic == ContainsIgnoringCase(title, KeyOpenMic)
                jam == ContainsIgnoringCase(title, KeyJam)
                lessons == ContainsIgnoringCase(title, KeyLessons)
                songwriting == ContainsIgnoringCase(title, KeySongwriting)
                fundraiser == ContainsIgnoringCase(title, KeyFundraiser)
            IN /\ type \in EventTypeNames
               /\ TheReport.events[k].eventType = type
               /\ type = "Open Mic" <=> openMic
               /\ type = "Jam Session" <=> (~openMic /\ jam)
               /\ type = "Workshop" <=> (~openMic /\ ~jam /\ (lessons \/ songwriting))
               /\ type = "Fundraiser" <=>
                     (~openMic /\ ~jam /\ ~lessons /\ ~songwriting /\ fundraiser)
               /\ title = TitleOpenMicJamFundraiser => type = "Open Mic"
               /\ title = TitleOpenMicNight => type = "Open Mic"
               /\ title = TitleSongwritingWorkshop => type = "Workshop"
               /\ title = TitleRandomBand => type = "Concert"

\* "Open Mic Jam Fundraiser" was classified
C15_Witness ==
    /\ Reported
    /\ Len(Enriched) = 1
    /\ rpUpcoming[1].title = TitleOpenMicJamFundraiser
    /\ Enriched[1].eventType = "Open Mic"

\* the status is the one the four rules give for these tickets and days
StatusAsSpecified(status, ticketsSold, days) ==
    LET urgent == days <= 7 /\ ticketsSold = 0
    IN /\ status \in {"urgent", "high", "medium", "low"}
       /\ status = "urgent" <=> urgent
       /\ status = "high" <=> (~urgent /\ ticketsSold >= 25)
       /\ status = "medium" <=> (~urgent /\ ticketsSold < 25 /\ ticketsSold >= 10)
       /\ status = "low" <=> (~urgent /\ ticketsSold < 10)

\* C16: for every number of tickets >= 0 and every number of days, the
\* sales status is urgent iff days <= 7 and no ticket is sold, else high iff
\* tickets >= 25, else medium iff tickets >= 10, else low, both in
\* FinalTicketManager's enrichment and in TicketSalesManager.getSalesStatus.
C16_SalesStatusRules ==
    /\ Reported =>
          \A k \in 1..Len(Enriched) :
              /\ Enriched[k].ticketsSold >= 0
              /\ StatusAsSpecified(Enriched[k].salesStatus, Enriched[k].ticketsSold,
                                   rpUpcoming[k].daysFromNow)
    /\ rpSales # Null =>
          \A k \in 1..Len(rpSales[1].events[1]) :
              LET e == rpSales[1].events[1][k]
              IN /\ e.ticketsSold >= 0
                 /\ StatusAsSpecified(e.salesStatus, e.ticketsSold, rpUpcoming[k].daysFromNow)
    /\ (Reported /\ rpSales # Null) =>
          \A k \in 1..Len(Enriched) :
              Enriched[k].ticketsSold = rpSales[1].events[1][k].ticketsSold =>
                  Enriched[k].salesStatus = rpSales[1].events[1][k].salesStatus

\* an event 7 days away without tickets is urgent for both classes
C16_Witness ==
    /\ Reported
    /\ rpSales # Null
    /\ Len(Enriched) = 1
    /\ rpUpcoming[1].daysFromNow = 7
    /\ Enriched[1].ticketsSold = 0
    /\ Enriched[1].salesStatus = "urgent"
    /\ rpSales[1].events[1][1].ticketsSold = 0
    /\ rpSales[1].events[1][1].salesStatus = "urgent"

\* the events the average is taken over, and the events neither free nor
\* RSVP-only
Counted == SelectSeq(Enriched, IsTicketed)
NeitherFreeNorRsvpOnly == SelectSeq(Enriched, LAMBDA e : ~e.isFree /\ ~e.isRSVPOnly)

\* C17: averageTicketsPerEvent is totalTicketsSold divided by the number of
\* ticketed events, and no event with isFree or isRSVPOnly true is counted
\* among the ticketed events (ticketedEventsCount).
C17_FreeAndRsvpOnlyNotCounted ==
    Reported =>
        LET summary == TheReport.summary
        IN /\ summary.ticketedEventsCount = Len(Counted)
           /\ \A k \in 1..Len(Counted) : ~Counted[k].isFree /\ ~Counted[k].isRSVPOnly
           /\ summary.ticketedEventsCount <= Len(NeitherFreeNorRsvpOnly)
           /\ summary.ticketedEventsCount > 0 =>
                 summary.averageTicketsPerEvent =
                     RoundedAverage(summary.totalTicketsSold, summary.ticketedEventsCount)

\* C18: when no event is ticketed (an empty list, or no event with a
\* ticket) averageTicketsPerEvent is exactly 0 and the report is produced
\* with success = true; the average is never NaN or infinite.
C18_AverageOfNoTicketedEventIsZero ==
    /\ (rpData # Null /\ rpData[1].success) => Reported
    /\ Reported =>
          LET summary == TheReport.summary
          IN /\ summary.averageTicketsPerEvent.kind = "number"
             /\ summary.ticketedEventsCount = 0 =>
                   summary.averageTicketsPerEvent = Tenths(0)
             /\ (\A k \in 1..Len(Enriched) : Enriched[k].ticketsSold = 0) =>
                   summary.averageTicketsPerEvent = Tenths(0)

\* two events without a ticket were reported
C18_Witness ==
    /\ Reported
    /\ Len(Enriched) = 2
    /\ \A k \in 1..2 : Enriched[k].ticketsSold = 0
    /\ TheReport.summary.ticketedEventsCount = 0
    /\ TheReport.summary.totalTicketsSold = 0
    /\ TheReport.summary.averageTicketsPerEvent = Tenths(0)

\* the titles of the urgent events and the top-selling entries of the report
UrgentTitles ==
    [k \in 1..Len(TheReport.summary.urgentEvents) |-> TheReport.summary.urgentEvents[k].title]
TopSold ==
    [k \in 1..Len(TheReport.summary.topSellingEvents) |->
        <<TheReport.summary.topSellingEvents[k].title,
          TheReport.summary.topSellingEvents[k].tickets>>]
ScenarioReported == Reported /\ rpUpcoming = ScenarioList

\* C19 as stated: for "Open Mic" (0 tickets, 3 days out), "Jazz Night" (12
\* tickets, 10 days out) and "Fundraiser Gala" (30 tickets, 2 days out) the
\* report has no urgent event, the top-selling events Fundraiser Gala (30),
\* Jazz Night (12) and the average 21.0.
C19_ScenarioAsStated ==
    ScenarioReported =>
        /\ UrgentTitles = <<>>
        /\ TopSold = <<<<TitleFundraiserGala, 30>>, <<TitleJazzNight, 12>>>>
        /\ TheReport.summary.averageTicketsPerEvent = Tenths(210)

\* C19: for the same three events the urgent events are "Open Mic" alone
\* (no ticket and 3 days out), the top-selling events Fundraiser Gala (30),
\* Jazz Night (12) and the average 21.0, over the 2 ticketed events.
C19_ScenarioWithOpenMicUrgent ==
    ScenarioReported =>
        /\ UrgentTitles = <<TitleOpenMic>>
        /\ TheReport.summary.urgentEvents[1].isRSVPOnly
        /\ TopSold = <<<<TitleFundraiserGala, 30>>, <<TitleJazzNight, 12>>>>
        /\ TheReport.summary.ticketedEventsCount = 2
        /\ TheReport.summary.averageTicketsPerEvent = Tenths(210)

\* the three events were reported
C19_Witness ==
    /\ ScenarioReported
    /\ TheReport.summary.totalUpcomingEvents = 3
    /\ TheReport.summary.totalTicketsSold = 42

\* the events have different titles, so that a title names one event
DistinctTitles ==
    \A i, j \in 1..Len(Enriched) : Enriched[i].title = Enriched[j].title => i = j
PositionOf(title) == CHOOSE k \in 1..Len(Enriched) : Enriched[k].title = title

\* C20: topSellingEvents has at most 5 entries (as many as there are events
\* with tickets, up to 5), only events with ticketsSold > 0, most tickets
\* first, events with the same number of tickets in their original order,
\* and no event outside the list has more tickets than one inside it.
C20_TopFiveByTicketsSold ==
    Reported =>
        LET top == TheReport.summary.topSellingEvents
            withTickets == SelectSeq(Enriched, LAMBDA e : e.ticketsSold > 0)
        IN /\ Len(top) <= 5
           /\ Len(top) = Min(5, Len(withTickets))
           /\ \A i \in 1..Len(top) : top[i].tickets > 0
           /\ \A i, j \in 1..Len(top) : i < j => top[i].tickets >= top[j].tickets
           /\ DistinctTitles =>
                 /\ \A i \in 1..Len(top) :
                       \E k \in 1..Len(Enriched) :
                           /\ Enriched[k].title = top[i].title
                           /\ Enriched[k].ticketsSold = top[i].tickets
                 /\ \A i, j \in 1..Len(top) :
                       /\ top[i].title = top[j].title => i = j
                       /\ (i < j /\ top[i].tickets = top[j].tickets) =>
                             PositionOf(top[i].title) < PositionOf(top[j].title)
                 /\ \A k \in 1..Len(Enriched) :
                       (\A i \in 1..Len(top) : top[i].title # Enriched[k].title) =>
                           \A i \in 1..Len(top) : Enriched[k].ticketsSold <= top[i].tickets

\* six events with tickets, the first with fewer than the second: five are
\* listed, with a tie among them, and the sixth is left out
C20_Witness ==
    /\ Reported
    /\ DistinctTitles
    /\ Len(Enriched) = 6
    /\ \A k \in 1..6 : Enriched[k].ticketsSold > 0
    /\ Enriched[1].ticketsSold < Enriched[2].ticketsSold
    /\ Len(TheReport.summary.topSellingEvents) = 5
    /\ TheReport.summary.topSellingEvents[1].tickets =
          TheReport.summary.topSellingEvents[2].tickets
    /\ TheReport.summary.topSellingEvents[5].tickets = 1

\* the ids of the events of a list, and the sum of the counts of a map
IdsIn(es) == {es[k].id : k \in 1..Len(es)}
RECURSIVE SumOfCounts(_)
SumOfCounts(counts) ==
    IF DOMAIN counts = {} THEN 0
    ELSE LET key == CHOOSE k \in DOMAIN counts : TRUE
         IN counts[key] + SumOfCounts([k \in DOMAIN counts \ {key} |-> counts[k]])

\* C21: urgentEvents holds exactly the events at most 7 days away without a
\* ticket sold, thisWeekEvents exactly the events at most 7 days away, every
\* urgent event is among this week's, and salesBreakdown.urgent is the
\* number of urgent events.
C21_UrgentAndThisWeek ==
    Reported =>
        LET summary == TheReport.summary
            events == 1..Len(rpUpcoming)
            listedAsIs(es) ==
                /\ \A i \in 1..Len(es) : es[i].id \in events /\ es[i] = Enriched[es[i].id]
                /\ \A i, j \in 1..Len(es) : es[i].id = es[j].id => i = j
        IN /\ listedAsIs(summary.urgentEvents)
           /\ listedAsIs(summary.thisWeekEvents)
           /\ IdsIn(summary.urgentEvents) =
                 {k \in events : /\ rpUpcoming[k].daysFromNow <= 7
                                 /\ Enriched[k].ticketsSold = 0}
           /\ IdsIn(summary.thisWeekEvents) =
                 {k \in events : rpUpcoming[k].daysFromNow <= 7}
           /\ IdsIn(summary.urgentEvents) \subseteq IdsIn(summary.thisWeekEvents)
           /\ summary.salesBreakdown.urgent = Len(summary.urgentEvents)

\* of two events of this week one is urgent, the other has tickets
C21_Witness ==
    /\ Reported
    /\ Len(Enriched) = 2
    /\ Len(TheReport.summary.thisWeekEvents) = 2
    /\ Len(TheReport.summary.urgentEvents) = 1
    /\ TheReport.summary.salesBreakdown.urgent = 1

\* C23 as stated: for every enriched event paidTickets + freeTickets <= ticketsSold,
\* whatever the tickets response was: a total that is missing or smaller
\* than the number of ticket records, and a failed request, included.
C23_PaidPlusFreeWithinTotal ==
    Reported =>
        \A k \in 1..Len(Enriched) :
            /\ Enriched[k].paidTickets + Enriched[k].freeTickets <= Enriched[k].ticketsSold
            /\ TheReport.events[k].paidTickets + TheReport.events[k].freeTickets
                  <= TheReport.events[k].ticketsSold

\* the ticket records and the total of the answer to an event's tickets
\* request; a failed request has neither
RecordsOf(answer) ==
    IF answer.status = 200 /\ answer.body.tickets # Null THEN answer.body.tickets[1] ELSE <<>>
DeclaredTotal(answer) ==
    IF answer.status = 200 /\ answer.body.total # Null THEN answer.body.total[1] ELSE 0

\* C23 as amended: paidTickets + freeTickets is the number of ticket records
\* of the response and ticketsSold the total it declares, 0 when the field
\* is missing or the request failed; so paidTickets + freeTickets <=
\* ticketsSold holds exactly when the declared total is at least the number
\* of records, as it is after a failed request.
C23_RecordsAndDeclaredTotal ==
    Reported =>
        \A k \in 1..Len(Enriched) :
            LET e == Enriched[k]
                answer == rpUpcoming[k].answer
            IN /\ e.paidTickets + e.freeTickets = Len(RecordsOf(answer))
               /\ e.paidTickets = Cardinality({i \in 1..Len(RecordsOf(answer)) : ~RecordsOf(answer)[i]})
               /\ e.ticketsSold = DeclaredTotal(answer)
               /\ (e.paidTickets + e.freeTickets <= e.ticketsSold)
                     <=> (Len(RecordsOf(answer)) <= DeclaredTotal(answer))
               /\ answer.status # 200 =>
                     e.paidTickets + e.freeTickets <= e.ticketsSold

\* a response with 3 ticket records declared a total of 2
C23_Witness ==
    /\ Reported
    /\ Len(Enriched) = 1
    /\ rpUpcoming[1].answer.body.total = Some(2)
    /\ Enriched[1].paidTickets = 2
    /\ Enriched[1].freeTickets = 1
    /\ Enriched[1].ticketsSold = 2

\* C27: the counts of eventTypes, of venueBreakdown and of salesBreakdown
\* each add up to totalUpcomingEvents, the number of listed events, and
\* totalTicketsSold is the sum of ticketsSold over the listed events.
C27_BreakdownsAddUp ==
    Reported =>
        LET summary == TheReport.summary
            listed == TheReport.events
        IN /\ summary.totalUpcomingEvents = Len(listed)
           /\ Len(listed) = Len(rpUpcoming)
           /\ SumOfCounts(summary.eventTypes) = summary.totalUpcomingEvents
           /\ SumOfCounts(summary.venueBreakdown) = summary.totalUpcomingEvents
           /\ summary.salesBreakdown.high + summary.salesBreakdown.medium
                 + summary.salesBreakdown.low + summary.salesBreakdown.urgent
                 = summary.totalUpcomingEvents
           /\ summary.totalTicketsSold = SumSeq([k \in 1..Len(listed) |-> listed[k].ticketsSold])
           /\ \A k \in 1..Len(listed) :
                 /\ listed[k].eventType \in DOMAIN summary.eventTypes
                 /\ listed[k].venue \in DOMAIN summary.venueBreakdown

\* two events of one type at two venues, one of them the default venue of
\* an event without location
C27_Witness ==
    /\ Reported
    /\ Len(Enriched) = 2
    /\ rpUpcoming[1].location = Null
    /\ rpUpcoming[2].location = Some("Milton Theatre")
    /\ TheReport.summary.venueBreakdown = [v \in {DefaultVenue, "Milton Theatre"} |-> 1]
    /\ TheReport.summary.eventTypes = [t \in {"Concert"} |-> 2]
    /\ TheReport.summary.totalTicketsSold = 24

\* C28: no event is counted both in ticketedEventsCount and in
\* freeEventsCount, so ticketedEventsCount + freeEventsCount <=
\* totalUpcomingEvents.
C28_TicketedAndFreeDisjoint ==
    Reported =>
        LET summary == TheReport.summary
        IN /\ \A k \in 1..Len(Enriched) :
                 ~(IsTicketed(Enriched[k]) /\ (Enriched[k].isFree \/ Enriched[k].isRSVPOnly))
           /\ summary.ticketedEventsCount + summary.freeEventsCount
                 <= summary.totalUpcomingEvents

\* ------------------------------------------------------------------------
\* The cache and GET /api/health (specification Spec)
\* ------------------------------------------------------------------------
\* C26: latestReport is null exactly when lastUpdated is null; the two are
\* written in the same step, and only in the step that ends a successful
\* run; so the response of /api/health has hasData = true exactly when its
\* lastUpdate is not null.
C26_ReportAndTimestampTogether ==
    /\ [](latestReport = Null <=> lastUpdated = Null)
    /\ [](healthResp # Null =>
             (healthResp[1].hasData <=> healthResp[1].lastUpdate # Null))
    /\ [][ /\ (latestReport' # latestReport) <=> (lastUpdated' # lastUpdated)
           /\ latestReport' # latestReport =>
                 /\ Len(finished') = Len(finished) + 1
                 /\ finished'[Len(finished')].success
                 /\ latestReport' = finished'[Len(finished')].report
                 /\ lastUpdated' = Some(finished'[Len(finished')].at) ]_vars

\* /api/health answered after a successful run whose report lists no event
C26_Witness ==
    /\ healthResp # Null
    /\ healthResp[1].hasData
    /\ healthResp[1].lastUpdate # Null
    /\ healthResp[1].totalEvents = 0
    /\ \E k \in 1..Len(finished) : ~finished[k].success

\* ------------------------------------------------------------------------
\* The enrichment loop of FinalTicketManager (specification SpecRun)
\* ------------------------------------------------------------------------
\* the place of an event in upcomingEvents
PlaceOf(e) == CHOOSE i \in 1..Len(upcomingEvents) : upcomingEvents[i] = e

\* C25: the ticket requests are issued one at a time in ascending start-time
\* order: every attempt for an event comes before the first attempt for the
\* next, no event is skipped, a 1000 ms delay and nothing else lies between
\* the last attempt for an event and the first for the next, and nothing,
\* so no delay, follows the last attempt for the last event.
C25_OneEventAtATime ==
    variant = "final" =>
        LET tickets == TicketRequests
            events == EventRequests
        IN
        /\ \A i, j \in 1..Len(upcomingEvents) :
              i < j => /\ upcomingEvents[i] # upcomingEvents[j]
                       /\ StartDay(upcomingEvents[i]) <= StartDay(upcomingEvents[j])
        /\ \A k \in tickets :
              /\ \E i \in 1..Len(upcomingEvents) : upcomingEvents[i] = io[k].arg
              /\ \A j \in events : j < k
              /\ (\A j \in tickets : j >= k) => io[k].arg = upcomingEvents[1]
              /\ (\E j \in tickets : j > k) =>
                    LET n == k + 2
                    IN /\ k + 1 \notin tickets
                       /\ n \in tickets
                       /\ PlaceOf(io[n].arg) \in {PlaceOf(io[k].arg), PlaceOf(io[k].arg) + 1}
                       /\ io[n].arg # io[k].arg =>
                             /\ io[k + 1] = Delay(EventDelay)
                             /\ io[n].attempt = 1
                       /\ io[n].arg = io[k].arg => io[n].attempt = io[k].attempt + 1
        /\ \A k \in 1..Len(io) :
              (io[k] = Delay(EventDelay) /\ k > 1 /\ io[k - 1].kind = "tickets") =>
                  /\ PlaceOf(io[k - 1].arg) < Len(upcomingEvents)
                  /\ k = Len(io) => pc = "tickets"
                  /\ k < Len(io) => io[k + 1].kind = "tickets"
        /\ (pc = "done" /\ tickets # {}) =>
              /\ io[Len(io)].kind = "tickets"
              /\ io[Len(io)].arg = upcomingEvents[Len(upcomingEvents)]
              /\ Len(eventsWithTickets) = Len(upcomingEvents)

\* a run over two events ended; the first event was rate limited once, and
\* 1000 ms passed between its last attempt and the request for the second
C25_Witness ==
    /\ variant = "final"
    /\ pc = "done"
    /\ Len(upcomingEvents) = 2
    /\ \E k \in TicketRequests :
          /\ io[k].arg = upcomingEvents[1]
          /\ io[k].attempt = 2
          /\ io[k + 1] = Delay(EventDelay)
          /\ io[k + 2].arg = upcomingEvents[2]
          /\ k + 2 = Len(io)

\* ------------------------------------------------------------------------
\* The status of one event: salesStatus of FinalTicketManager, getSalesStatus
\* of TicketSalesManager and popularityStatus of SimplifiedVenueManager on
\* the same title, counts and days
\* ------------------------------------------------------------------------
MaxCount == 25          \* RSVPs, and tickets or bookings, of the event

TitleJamNight == <<"J", "A", "M", " ", "N", "I", "G", "H", "T">>
TitleVoiceLessons == <<"V", "o", "i", "c", "e", " ", "L", "e", "s", "s", "o", "n", "s", " ", "w", "i", "t", "h", " ", "A", "n", "a">>
TitleJamSession == <<"J", "a", "m", " ", "S", "e", "s", "s", "i", "o", "n">>
ClassifiedTitles ==
    {TitleOpenMic, TitleJazzNight, TitleFundraiserGala, TitleJamNight,
     TitleVoiceLessons, TitleJamSession}

NotClassified == [sales |-> Null, getSales |-> Null, popularity |-> Null]

ClassifyInit ==
    /\ clInput \in [title : ClassifiedTitles, rsvpCount : 0..MaxCount,
                    ticketsSold : 0..MaxCount, daysFromNow : {7, 8}]
    /\ clOutput = NotClassified

\* final-ticket-manager.js:722-730 and part_002:258-268
ClassifySales ==
    /\ clOutput.sales = Null
    /\ clOutput' = [clOutput EXCEPT
                      !.sales = Some(SalesStatus(clInput.ticketsSold, clInput.daysFromNow)),
                      !.getSales = Some(GetSalesStatus(clInput.ticketsSold,
                                                       clInput.daysFromNow))]
    /\ UNCHANGED clInput
    /\ UNCHANGED restOfClassify

\* simplified-venue-manager.js:94-120
ClassifyPopularity ==
    /\ clOutput.popularity = Null
    /\ clOutput' = [clOutput EXCEPT
                      !.popularity = Some(PopularityStatus(clInput.rsvpCount,
                                                           clInput.ticketsSold,
                                                           IsRecurring(clInput.title)))]
    /\ UNCHANGED clInput
    /\ UNCHANGED restOfClassify

InitClassify ==
    /\ ServerOff /\ RunOff /\ VenueOff /\ ReportOff
    /\ ClassifyInit /\ PageOff /\ DailyOff /\ StartOff

NextClassify ==
    \/ ClassifySales
    \/ ClassifyPopularity

SpecClassify == InitClassify /\ [][NextClassify]_vars

\* the statuses given so far
StatusesGiven ==
    {clOutput[f][1] : f \in {f \in {"sales", "getSales", "popularity"} : clOutput[f] # Null}}
RecurringTitle ==
    \/ ContainsIgnoringCase(clInput.title, KeyOpenMic)
    \/ ContainsIgnoringCase(clInput.title, KeyJamNight)
    \/ ContainsIgnoringCase(clInput.title, KeyVoiceLessons)

\* C22 as stated: every status is one of high, medium, low, urgent,
\* recurring, in every variant and for every title, counts and days; and in
\* the popularity variant a title with a recurring keyword ("open mic", "jam
\* night", "voice lessons") has the status recurring whatever the counts.
C22_StatusInClosedSet ==
    /\ StatusesGiven \subseteq {"high", "medium", "low", "urgent", "recurring"}
    /\ (clOutput.popularity # Null /\ RecurringTitle) =>
          clOutput.popularity = Some("recurring")

\* C22 as amended: the statuses are high, medium, low, urgent, recurring and
\* info: the sales status is one of high, medium, low, urgent; the
\* popularity status is recurring exactly for a title with a recurring
\* keyword, whatever the counts, and else info exactly when the event has no
\* RSVP and no booking, and else high, medium or low.
C22_StatusInClosedSetWithInfo ==
    /\ StatusesGiven \subseteq {"high", "medium", "low", "urgent", "recurring", "info"}
    /\ clOutput.sales # Null =>
          /\ clOutput.sales[1] \in {"high", "medium", "low", "urgent"}
          /\ clOutput.getSales = clOutput.sales
    /\ clOutput.popularity # Null =>
          /\ clOutput.popularity[1] \in {"high", "medium", "low", "recurring", "info"}
          /\ clOutput.popularity = Some("recurring") <=> RecurringTitle
          /\ clOutput.popularity = Some("info") <=>
                (~RecurringTitle /\ clInput.rsvpCount = 0 /\ clInput.ticketsSold = 0)

\* "JAM NIGHT" with 25 RSVPs and 25 bookings is recurring for the popularity
\* variant and high for the sales variants
C22_Witness ==
    /\ clInput.title = TitleJamNight
    /\ clInput.rsvpCount = 25
    /\ clInput.ticketsSold = 25
    /\ clOutput.popularity = Some("recurring")
    /\ clOutput.sales = Some("high")

\* ------------------------------------------------------------------------
\* The dashboard page (server.js:534-719): loadDashboard on page load,
\* refreshData from the button and from the 10-minute timer.  The handler is
\* also followed when it is invoked while the button is disabled.
\* ------------------------------------------------------------------------
MaxCalls == 3           \* invocations of refreshData per behaviour

PageInit ==
    /\ pgRefreshing = FALSE
    /\ pgDisabled = FALSE
    /\ pgCalls = <<>>
    /\ pgInFlight = 0
    /\ pgLoad = "cached"

\* what the finally block does (server.js:574-578)
Finally ==
    /\ pgRefreshing' = FALSE
    /\ pgDisabled' = FALSE

\* refreshData up to its first await (server.js:558-567)
RefreshDataUnguarded(by) ==
    /\ pgRefreshing' = TRUE
    /\ pgDisabled' = TRUE
    /\ pgInFlight' = pgInFlight + 1
    /\ pgCalls' = Append(pgCalls, [by |-> by, pc |-> "fetch", ended |-> "no"])
RefreshData(by) ==
    IF pgRefreshing
    THEN /\ pgCalls' = Append(pgCalls, [by |-> by, pc |-> "done", ended |-> "returned"])
         /\ UNCHANGED <<pgRefreshing, pgDisabled, pgInFlight>>
    ELSE /\ pgRefreshing' = TRUE
         /\ pgDisabled' = TRUE
         /\ pgInFlight' = pgInFlight + 1
         /\ pgCalls' = Append(pgCalls, [by |-> by, pc |-> "fetch", ended |-> "no"])

\* onclick="refreshData()" (server.js:481)
Click ==
    /\ Len(pgCalls) < MaxCalls
    /\ RefreshData("click")
    /\ UNCHANGED pgLoad
    /\ UNCHANGED restOfPage

\* the callback of setInterval (server.js:711-715)
AutoRefresh ==
    /\ Len(pgCalls) < MaxCalls
    /\ ~pgRefreshing
    /\ RefreshData("timer")
    /\ UNCHANGED pgLoad
    /\ UNCHANGED restOfPage

\* fetch('/api/events') of call c settles: resolved with an OK response,
\* with another status, or rejected (server.js:567-573)
FetchSettles(c, outcome) ==
    /\ c \in 1..Len(pgCalls)
    /\ pgCalls[c].pc = "fetch"
    /\ pgInFlight' = pgInFlight - 1
    /\ IF outcome = "ok"
       THEN /\ pgCalls' = [pgCalls EXCEPT ![c].pc = "json"]
            /\ UNCHANGED <<pgRefreshing, pgDisabled>>
       ELSE /\ pgCalls' = [pgCalls EXCEPT ![c].pc = "done", ![c].ended = "alerted"]
            /\ Finally
    /\ UNCHANGED pgLoad
    /\ UNCHANGED restOfPage

\* response.json() of call c settles and the page is rendered, or either
\* throws (server.js:569-578)
JsonSettles(c, rendered) ==
    /\ c \in 1..Len(pgCalls)
    /\ pgCalls[c].pc = "json"
    /\ pgCalls' = [pgCalls EXCEPT ![c].pc = "done",
                                  ![c].ended = IF rendered THEN "rendered" ELSE "alerted"]
    /\ Finally
    /\ UNCHANGED <<pgInFlight, pgLoad>>
    /\ UNCHANGED restOfPage

\* loadDashboard: the cached report, else a fresh one (server.js:537-556);
\* it neither reads nor writes isRefreshing
LoadSettles(outcome) ==
    /\ pgLoad \in {"cached", "fresh", "json"}
    /\ pgLoad' = IF outcome = "rejected" THEN "failed"
                 ELSE IF pgLoad = "json" THEN "rendered"
                 ELSE IF outcome = "ok" THEN "json"
                 ELSE IF pgLoad = "cached" THEN "fresh"
                 ELSE "failed"
    /\ UNCHANGED <<pgRefreshing, pgDisabled, pgCalls, pgInFlight>>
    /\ UNCHANGED restOfPage

InitPage ==
    /\ ServerOff /\ RunOff /\ VenueOff /\ ReportOff
    /\ ClassifyOff /\ PageInit /\ DailyOff /\ StartOff

NextPage ==
    \/ Click
    \/ AutoRefresh
    \/ \E c \in 1..MaxCalls, outcome \in {"ok", "notOk", "rejected"} : FetchSettles(c, outcome)
    \/ \E c \in 1..MaxCalls, rendered \in BOOLEAN : JsonSettles(c, rendered)
    \/ \E outcome \in {"ok", "notOk", "rejected"} : LoadSettles(outcome)

SpecPage == InitPage /\ [][NextPage]_vars

\* the invocations of refreshData between their request and their finally
Refreshing == {c \in 1..Len(pgCalls) : pgCalls[c].pc \in {"fetch", "json"}}

\* C29: at most one request of refreshData to /api/events is in flight; an
\* invocation while isRefreshing is true issues no request; and isRefreshing
\* is true, and the button disabled, exactly from the start of an invocation
\* that issues a request until that invocation ends, whether the request
\* succeeded, returned a non-OK status or threw.
C29_OneRefreshAtATime ==
    /\ [](/\ pgInFlight <= 1
          /\ pgInFlight = Cardinality({c \in 1..Len(pgCalls) : pgCalls[c].pc = "fetch"})
          /\ Cardinality(Refreshing) <= 1
          /\ pgRefreshing <=> Refreshing # {}
          /\ pgDisabled <=> pgRefreshing)
    /\ [][ /\ pgRefreshing => pgInFlight' <= pgInFlight
           /\ \A c \in 1..Len(pgCalls) :
                 (pgCalls[c].pc # "done" /\ pgCalls'[c].pc = "done") =>
                     ~pgRefreshing' /\ ~pgDisabled' ]_vars

\* a refresh failed and reset the flag, a second is in flight, and a click
\* during the second issued no request
C29_Witness ==
    /\ Len(pgCalls) = 3
    /\ pgCalls[1].ended = "alerted"
    /\ pgCalls[2].pc = "fetch"
    /\ pgCalls[3].ended = "returned"
    /\ pgCalls[3].by = "click"
    /\ pgRefreshing
    /\ pgInFlight = 1

\* ------------------------------------------------------------------------
\* The scheduled jobs of the server (server.js:725-866): updateCache at
\* startup and at minute 0 of every hour, the daily report at 9:00, over one
\* calendar day.  dyNow is the local time in minutes since midnight.
\* ------------------------------------------------------------------------
MaxTicks == 6           \* quarters of an hour the clock advances
MaxStarts == 2          \* starts of the server process in the day
SendHour == 9           \* now.getHours() === 9, and '0 9 * * *'
SendWindow == 30        \* now.getMinutes() < 30
MinutesPerHour == 60
Quarter == 15           \* the step of the clock

FirstMinute == (SendHour - 1) * MinutesPerHour
LastMinute == FirstMinute + MaxTicks * Quarter

DailyInit ==
    /\ dyNow = FirstMinute
    /\ dyDue = {}
    /\ dyJobs = <<>>
    /\ dyCache = Null
    /\ dyEmails = <<>>
    /\ dyConfigured \in BOOLEAN
    /\ dyStarts = 0

\* the tasks cron fires at minute t: '0 * * * *' and '0 9 * * *'
CronDue(t) ==
    (IF t % MinutesPerHour = 0 THEN {"hourly"} ELSE {})
        \cup (IF t = SendHour * MinutesPerHour THEN {"daily"} ELSE {})

\* now.getHours() === 9 && now.getMinutes() < 30
InWindow(t) ==
    /\ t \div MinutesPerHour = SendHour
    /\ t % MinutesPerHour < SendWindow

\* an invocation of updateCache, waiting for generateTicketReport
UpdateJob(by) == [kind |-> "update", by |-> by, pc |-> "report", stored |-> Null]

\* sendDailyReport up to transporter.sendMail: it returns at once when the
\* email settings are missing
SendDailyReport(job) ==
    IF dyConfigured
    THEN [job EXCEPT !.pc = "mail"]
    ELSE [job EXCEPT !.pc = "done"]

\* node server.js: the module's state is fresh, what the previous process
\* was doing is gone, and updateCache is called once
ServerStart ==
    /\ dyStarts < MaxStarts
    /\ dyStarts' = dyStarts + 1
    /\ dyCache' = Null
    /\ dyJobs' = <<UpdateJob("start")>>
    /\ dyDue' = {}
    /\ UNCHANGED <<dyNow, dyEmails, dyConfigured>>
    /\ UNCHANGED restOfDaily

\* a quarter of an hour passes; a running server's cron tasks become due
Tick ==
    /\ dyDue = {}
    /\ dyNow + Quarter <= LastMinute
    /\ dyNow' = dyNow + Quarter
    /\ dyDue' = IF dyStarts = 0 THEN {} ELSE CronDue(dyNow')
    /\ UNCHANGED <<dyJobs, dyCache, dyEmails, dyConfigured, dyStarts>>
    /\ UNCHANGED restOfDaily

\* cron.schedule('0 * * * *', updateCache)
HourlyTask ==
    /\ "hourly" \in dyDue
    /\ dyDue' = dyDue \ {"hourly"}
    /\ dyJobs' = Append(dyJobs, UpdateJob("cron"))
    /\ UNCHANGED <<dyNow, dyCache, dyEmails, dyConfigured, dyStarts>>
    /\ UNCHANGED restOfDaily

\* cron.schedule('0 9 * * *', ...): the cached report, if any, is sent
DailyTask ==
    /\ "daily" \in dyDue
    /\ dyDue' = dyDue \ {"daily"}
    /\ LET job == [kind |-> "daily", by |-> "cron", pc |-> "done", stored |-> Null]
       IN  dyJobs' = Append(dyJobs, IF dyCache # Null THEN SendDailyReport(job) ELSE job)
    /\ UNCHANGED <<dyNow, dyCache, dyEmails, dyConfigured, dyStarts>>
    /\ UNCHANGED restOfDaily

\* generateTicketReport of job j settles: on success the cache is stored and,
\* inside the window, the daily report is sent; a failed or thrown report
\* is logged
ReportSettles(j, success) ==
    /\ j \in 1..Len(dyJobs)
    /\ dyJobs[j].pc = "report"
    /\ IF success
       THEN LET report == Some([at |-> dyNow, start |-> dyStarts])
                stored == [dyJobs[j] EXCEPT !.stored = report, !.pc = "done"]
            IN  /\ dyCache' = report
                /\ dyJobs' = [dyJobs EXCEPT ![j] =
                                 IF InWindow(dyNow) THEN SendDailyReport(stored) ELSE stored]
       ELSE /\ dyJobs' = [dyJobs EXCEPT ![j].pc = "done"]
            /\ UNCHANGED dyCache
    /\ UNCHANGED <<dyNow, dyDue, dyEmails, dyConfigured, dyStarts>>
    /\ UNCHANGED restOfDaily

\* transporter.sendMail of job j settles; a rejection is caught by
\* updateCache's catch, or leaves the daily task's promise rejected
MailSettles(j, sent) ==
    /\ j \in 1..Len(dyJobs)
    /\ dyJobs[j].pc = "mail"
    /\ dyJobs' = [dyJobs EXCEPT ![j].pc = "done"]
    /\ dyEmails' = IF sent
                   THEN Append(dyEmails, [at |-> dyNow, by |-> dyJobs[j].kind])
                   ELSE dyEmails
    /\ UNCHANGED <<dyNow, dyDue, dyCache, dyConfigured, dyStarts>>
    /\ UNCHANGED restOfDaily

MaxJobs == MaxStarts + 2 * MaxTicks

InitDaily ==
    /\ ServerOff /\ RunOff /\ VenueOff /\ ReportOff
    /\ ClassifyOff /\ PageOff /\ DailyInit /\ StartOff

NextDaily ==
    \/ ServerStart
    \/ Tick
    \/ HourlyTask
    \/ DailyTask
    \/ \E j \in 1..MaxJobs, success \in BOOLEAN : ReportSettles(j, success)
    \/ \E j \in 1..MaxJobs, sent \in BOOLEAN : MailSettles(j, sent)

SpecDaily == InitDaily /\ [][NextDaily]_vars

\* C30: with email configured at most one daily report is emailed in the
\* day, and a failed email leaves the cache as the same run of updateCache
\* stored it.
C30_OneDailyEmail ==
    /\ [](dyConfigured => Len(dyEmails) <= 1)
    /\ [][ \A j \in 1..Len(dyJobs) :
              (/\ dyJobs[j].pc = "mail"
               /\ dyJobs[j].kind = "update"
               /\ dyStarts' = dyStarts
               /\ dyJobs'[j].pc = "done"
               /\ dyEmails' = dyEmails)
              => (dyCache' = dyCache /\ dyCache # Null) ]_vars

\* the second half of C30 alone
C30_FailedEmailKeepsCache ==
    [][ \A j \in 1..Len(dyJobs) :
           (/\ dyJobs[j].pc = "mail"
            /\ dyJobs[j].kind = "update"
            /\ dyStarts' = dyStarts
            /\ dyJobs'[j].pc = "done"
            /\ dyEmails' = dyEmails)
           => (dyCache' = dyCache /\ dyCache # Null) ]_vars

\* one start of the server, and at 9:00 both the daily task and the hourly
\* updateCache have sent the report
C30_TwoEmailsWithoutRestart ==
    /\ dyConfigured
    /\ dyStarts = 1
    /\ Len(dyEmails) = 2
    /\ dyEmails[1].at = SendHour * MinutesPerHour
    /\ dyEmails[2].at = SendHour * MinutesPerHour
    /\ dyEmails[1].by # dyEmails[2].by

\* ------------------------------------------------------------------------
\* The start of one script with the credentials the environment holds: the
\* command-line entry points of the managers, the dashboard server, and the
\* diagnostic scripts.  A credential is present when its variable is set to
\* a non-empty string.
\* ------------------------------------------------------------------------
MaxRequests == 2        \* requests a script issues per behaviour

ManagerClis ==
    {"final-ticket-manager", "optimized-ticket-manager", "simplified-venue-manager",
     "venue-manager", "ticket-sales-manager", "enhanced-venue-manager"}
Servers == {"server"}
DebugScripts ==
    {"ticket-sales-debugger", "ticket-data-analyzer", "debug-events", "test-token"}
Scripts == ManagerClis \cup Servers \cup DebugScripts

MissingMessage == "Missing WIX_API_TOKEN or WIX_SITE_ID in .env file"

\* !this.apiToken || !this.siteId
MissingCredentials(env) == ~env.token \/ ~env.siteId

StartInit ==
    /\ stScript \in Scripts
    /\ stEnv \in [token : BOOLEAN, siteId : BOOLEAN]
    /\ stPc = "start"
    /\ stRequests = <<>>
    /\ stError = Null

\* new ...Manager(): main() catches the error and prints it; the server
\* constructs at module level, so the process dies before cron and listen
ConstructManager ==
    /\ stScript \in ManagerClis \cup Servers
    /\ stPc = "start"
    /\ IF MissingCredentials(stEnv)
       THEN /\ stError' = Some(MissingMessage)
            /\ stPc' = IF stScript \in Servers THEN "crashed" ELSE "reported"
       ELSE /\ stPc' = "running"
            /\ UNCHANGED stError
    /\ UNCHANGED <<stScript, stEnv, stRequests>>
    /\ UNCHANGED restOfStart

\* the lines of a diagnostic script before its first request: test-token
\* returns without a token, debug-events fails on the token's substring,
\* the other two test nothing
DebugPrologue ==
    /\ stScript \in DebugScripts
    /\ stPc = "start"
    /\ IF stScript = "test-token" /\ ~stEnv.token
       THEN /\ stPc' = "returned"
            /\ UNCHANGED stError
       ELSE IF stScript = "debug-events" /\ ~stEnv.token
       THEN /\ stPc' = "reported"
            /\ stError' = Some("TypeError")
       ELSE /\ stPc' = "running"
            /\ UNCHANGED stError
    /\ UNCHANGED <<stScript, stEnv, stRequests>>
    /\ UNCHANGED restOfStart

\* axios.get with the headers built from the environment
IssueRequest ==
    /\ stPc = "running"
    /\ Len(stRequests) < MaxRequests
    /\ stRequests' = Append(stRequests,
           [token |-> stEnv.token, siteId |-> stEnv.siteId, settled |-> "no"])
    /\ stPc' = "waiting"
    /\ UNCHANGED <<stScript, stEnv, stError>>
    /\ UNCHANGED restOfStart

\* the request settles; every script catches a failed request and goes on
RequestSettles(outcome) ==
    /\ stPc = "waiting"
    /\ stRequests' = [stRequests EXCEPT ![Len(stRequests)].settled = outcome]
    /\ stPc' = "running"
    /\ UNCHANGED <<stScript, stEnv, stError>>
    /\ UNCHANGED restOfStart

\* the script has nothing more to do; the server keeps running
Finish ==
    /\ stPc = "running"
    /\ stScript \notin Servers
    /\ stPc' = "finished"
    /\ UNCHANGED <<stScript, stEnv, stRequests, stError>>
    /\ UNCHANGED restOfStart

InitStart ==
    /\ ServerOff /\ RunOff /\ VenueOff /\ ReportOff
    /\ ClassifyOff /\ PageOff /\ DailyOff /\ StartInit

NextStart ==
    \/ ConstructManager
    \/ DebugPrologue
    \/ IssueRequest
    \/ \E outcome \in {"ok", "failed"} : RequestSettles(outcome)
    \/ Finish

SpecStart == InitStart /\ [][NextStart]_vars

\* C24: with WIX_API_TOKEN or WIX_SITE_ID missing no script issues a request,
\* and a script that constructs a manager has failed with the missing-
\* credentials error once it is past its start.
C24_NoRequestWithoutCredentials ==
    MissingCredentials(stEnv) =>
        /\ stRequests = <<>>
        /\ (stScript \in ManagerClis \cup Servers /\ stPc # "start") =>
               (stError = Some(MissingMessage) /\ stPc \in {"reported", "crashed"})

\* the part of C24 about the managers alone
C24_ManagersFailBeforeAnyRequest ==
    (MissingCredentials(stEnv) /\ stScript \in ManagerClis \cup Servers) =>
        /\ stRequests = <<>>
        /\ stPc # "start" => (stError = Some(MissingMessage) /\ stPc \in {"reported", "crashed"})

\* the ticket sales debugger has sent a request without a token
C24_RequestWithoutToken ==
    /\ stScript = "ticket-sales-debugger"
    /\ ~stEnv.token
    /\ stEnv.siteId
    /\ Len(stRequests) = 1
    /\ ~stRequests[1].token

====
